---------------------------- MODULE Spec2Model ----------------------------
(***************************************************************************)
(* A model of src/bot.py: a guild-scoped eligibility bot whose DataManager *)
(* keeps four in-memory collections beside a remote spreadsheet, a grant   *)
(* workflow (CheckEligibilityButton), and a time-boxed claim workflow      *)
(* (bonus_command, BonusView, BonusButton).                                *)
(*                                                                         *)
(* Handlers are asyncio tasks: a step of the model is the code between two *)
(* awaits of one handler, or one blocking spreadsheet call of a worker     *)
(* thread started with asyncio.to_thread.                                  *)
(***************************************************************************)
EXTENDS Integers, Sequences, FiniteSets, TLC

(***************************************************************************)
(* Bounds of the model.                                                    *)
(***************************************************************************)
\* Grant-workflow invocations (button presses) in one behaviour.
MaxInv == 2
\* /bonus invocations in one behaviour.
MaxCmd == 1
\* Claim-button presses in one behaviour.
MaxPress == 2
\* Ticks of the wall clock, in seconds.
MaxTime == 2
\* Operator-command and gateway-event handler invocations in one behaviour.
MaxOp == 2
\* Presses of the Prev and Next buttons in one behaviour.
MaxNav == 4
\* Records of one guild in the grant-history worksheet at start-up.
MaxRecords == 21

(***************************************************************************)
(* The world the handlers run in.                                          *)
(***************************************************************************)
\* Python's None.
NoneVal == "None"

Guilds == {"g1", "g2"}
\* Platform ids are integers; the DataManager keeps them as strings.
Members == {100, 200}

\* str(int) and int(str) for the ids that occur.
StrOf(n) ==
  CASE n = 10 -> "10" [] n = 20 -> "20" [] n = 99 -> "99"
    [] n = 100 -> "100" [] n = 200 -> "200"

IntOf(s) ==
  CASE s = "10" -> 10 [] s = "20" -> 20 [] s = "99" -> 99
    [] s = "100" -> 100 [] s = "200" -> 200

\* The ids of the messages /setup posts, in the order the platform assigns
\* them, and the text channels of a guild.
MsgIds == <<"5", "6", "7", "8">>
Channels == {"1", "2"}

\* str.isdigit() on the strings that occur in configuration cells.
IsDigit(s) ==
  \/ s \in {"10", "20", "99", "100", "200"}
  \/ s \in Channels
  \/ s \in {MsgIds[i] : i \in 1..Len(MsgIds)}

\* The prompt /setup posted in channel 1 of g1 before the behaviour starts.
InitialPrompts ==
  [posted |-> <<[channel |-> "1", guild |-> "g1"]>>, live |-> {1}]

\* Python truthiness of an Optional[str].
Truthy(s) == s # NoneVal /\ s # ""

\* The roles that exist in a guild (discord.Guild.get_role finds exactly these).
GuildRoles(g) == IF g = "g1" THEN {10, 20} ELSE {10}

VARIABLES
  valid_uids,       \* DataManager.valid_uids: set of uid strings
  user_image_map,   \* DataManager.user_image_map: uid -> url
  guild_config,     \* DataManager.guild_config: guild id -> configuration dict
  granted_history,  \* DataManager.granted_history: guild id -> list of records
  histSheet,        \* rows of the 'granted_history' worksheet
  bonusSheet,       \* rows of the 'Bonus_Log' worksheet
  memberRoles,      \* platform: guild -> member -> roles held
  grant,            \* grant-workflow invocations (CheckEligibilityButton.callback)
  cmd,              \* /bonus invocations (bonus_command)
  view,             \* one BonusView (with its BonusButton and message) per /bonus
  press,            \* claim presses (BonusButton.callback)
  now,              \* wall clock, seconds
  cfgSheet,         \* rows of the 'guild_config' worksheet
  uidSheet,         \* rows of the 'UID_List' worksheet
  sheetFormat,      \* cell format of the worksheets: "automatic" or "text"
  op,               \* operator-command and gateway-event handler invocations
  pager,            \* the HistoryPagerView of each /history invocation
  nav,              \* presses of the Prev and Next buttons
  prompts           \* platform: the eligibility prompts posted by /setup

dmVars == <<valid_uids, user_image_map, guild_config, granted_history>>
sheetVars == <<histSheet, bonusSheet>>
claimVars == <<cmd, view, press>>
adminVars == <<cfgSheet, uidSheet, sheetFormat, op, pager, nav, prompts>>
vars == <<valid_uids, user_image_map, guild_config, granted_history,
          histSheet, bonusSheet, memberRoles, grant, cmd, view, press, now,
          cfgSheet, uidSheet, sheetFormat, op, pager, nav, prompts>>

(***************************************************************************)
(* DataManager: configuration dicts, history records, worksheet rows.      *)
(***************************************************************************)
\* A guild_config value: a dict whose missing keys read as NoneVal (dict.get).
Conf(name, ch, role, msg, bonus) ==
  [server_name |-> name, channel_id |-> ch, role_id |-> role,
   message_id |-> msg, bonus_role_id |-> bonus]

\* data_manager.guild_config.get(guild_id_str) is not None
HasConfig(g) == g \in DOMAIN guild_config

\* data_manager.granted_history.get(g, [])
HistoryGet(g) ==
  IF g \in DOMAIN granted_history THEN granted_history[g] ELSE <<>>

\* str(interaction.user): the display name snapshot.
UserName(m) == <<"user", m>>

\* datetime.now(timezone.utc).isoformat()
IsoNow == [fmt |-> "iso", t |-> now]

\* format_iso_time: an ISO string becomes 'YYYY-MM-DD HH:MM:SS UTC'; a string
\* already in that form does not parse and is returned as it is.
format_iso_time(ts) ==
  IF ts.fmt = "iso" THEN [fmt |-> "utc", t |-> ts.t] ELSE ts

\* f"'{raw_uid}" if raw_uid.isdigit() and not raw_uid.startswith("'") else raw_uid
\* A written uid cell is the pair <<leading quote, text>>.
QuoteUid(uid) == IF IsDigit(uid) THEN <<"'", uid>> ELSE <<"", uid>>

\* value_input_option='USER_ENTERED': a leading quote makes the cell text and
\* is not part of the stored value.
UserEntered(cell) == cell[2]

\* Snowflake ids as strings: str(guild.id), str(role.id), str(channel.id),
\* str(message.id).  A snowflake has 17 to 19 digits; the model writes guild
\* ids g1, g2 and the other ids by their leading digits.
IsSnowflakeText(s) == IsDigit(s) \/ s \in Guilds

\* What a later read (get_all_values / get_all_records, then str()) gives for
\* a cell written with value_input_option='USER_ENTERED' and no leading
\* quote.  USER_ENTERED parses the text as typed by a user: in a cell of
\* automatic format a digit string becomes a number, kept with 15 significant
\* digits and rendered in scientific notation, and str(float(...)) of a
\* snowflake reads like '1.23457e+17'.  In a cell an operator formatted as
\* plain text the digits stay text.
Entered(fmt, s) ==
  IF fmt = "automatic" /\ IsSnowflakeText(s) THEN s \o "e+17" ELSE s

HistHeader == [kind |-> "header", cols |-> <<"guild_id", "uid", "username", "time">>]

\* row = [str(gid), uid_str, str(record.get("username", "")), time_str]
HistRow(g, rec) ==
  [kind |-> "data", guild_id |-> g, uid |-> QuoteUid(rec.uid),
   username |-> rec.username, time |-> format_iso_time(rec.time)]

\* The rows save_granted_history_sheet builds for one guild's records.
HistRowsOf(g, recs) == [i \in 1..Len(recs) |-> HistRow(g, recs[i])]

\* Dict keys in the order a dict iterates them; the model orders them by name.
\* A key read back from a worksheet of automatic format is the number's text.
GuildOrder == <<"g1", "g2", "g1e+17", "g2e+17">>

RECURSIVE HistRowsAll(_)
\* for gid, records in self.granted_history.items(): ...
HistRowsAll(i) ==
  IF i > Len(GuildOrder) THEN <<>>
  ELSE (IF GuildOrder[i] \in DOMAIN granted_history
        THEN HistRowsOf(GuildOrder[i], granted_history[GuildOrder[i]])
        ELSE <<>>) \o HistRowsAll(i + 1)

\* data_to_write of save_granted_history_sheet, from the memory of this moment.
HistPayload == <<HistHeader>> \o HistRowsAll(1)

\* What ws.update('A1', rows, value_input_option='USER_ENTERED') leaves in a row.
StoredRow(row) ==
  IF row.kind = "header" THEN row
  ELSE [row EXCEPT !.uid = UserEntered(row.uid),
                   !.guild_id = Entered(sheetFormat, row.guild_id)]

StoredRows(rows) == [i \in 1..Len(rows) |-> StoredRow(rows[i])]

\* The data rows get_all_records(head=1) returns: every row after the first.
DataRows(rows) == IF rows = <<>> THEN <<>> ELSE Tail(rows)

\* _load of load_granted_history_sheet: rows with a non-empty guild_id, grouped
\* by it in row order; uid, username and time are kept as the cells read.
HistoryRecordOf(row) ==
  [uid |-> row.uid, username |-> row.username, time |-> row.time]

LoadedHistoryOf(rows, g) ==
  LET mine == SelectSeq(DataRows(rows), LAMBDA r : r.guild_id = g)
  IN [i \in 1..Len(mine) |-> HistoryRecordOf(mine[i])]

LoadedHistory(rows) ==
  LET data == DataRows(rows)
  IN [g \in {data[i].guild_id : i \in 1..Len(data)} \ {""} |->
        LoadedHistoryOf(rows, g)]

\* An empty dict, as _load returns it after an APIError or another exception.
EmptyDict == [g \in {} |-> <<>>]

CfgHeader ==
  [kind |-> "header",
   cols |-> <<"guild_id", "server_name", "channel_id", "role_id",
              "message_id", "bonus_role_id">>]

\* str(conf.get(key, "")): a missing key is written as the empty string.
CellOf(v) == IF v = NoneVal THEN "" ELSE v

\* One row of save_guild_config_sheet's data_to_write, as ws.update with
\* USER_ENTERED leaves it in the worksheet.
CfgStoredRow(g, conf) ==
  [kind |-> "data",
   guild_id |-> Entered(sheetFormat, g),
   server_name |-> CellOf(conf.server_name),
   channel_id |-> Entered(sheetFormat, CellOf(conf.channel_id)),
   role_id |-> Entered(sheetFormat, CellOf(conf.role_id)),
   message_id |-> Entered(sheetFormat, CellOf(conf.message_id)),
   bonus_role_id |-> Entered(sheetFormat, CellOf(conf.bonus_role_id))]

RECURSIVE CfgRowsAll(_)
\* for gid, conf in self.guild_config.items(): ...
CfgRowsAll(i) ==
  IF i > Len(GuildOrder) THEN <<>>
  ELSE (IF GuildOrder[i] \in DOMAIN guild_config
        THEN <<CfgStoredRow(GuildOrder[i], guild_config[GuildOrder[i]])>>
        ELSE <<>>) \o CfgRowsAll(i + 1)

\* What a save of the configuration started now leaves in the worksheet.
CfgPayload == <<CfgHeader>> \o CfgRowsAll(1)

\* _load of load_guild_config_sheet: a dict of five strings per row with a
\* non-empty guild_id; a later row of the same guild replaces an earlier one.
LoadedConfigOf(rows, g) ==
  LET mine == SelectSeq(DataRows(rows), LAMBDA r : r.guild_id = g)
      r == mine[Len(mine)]
  IN Conf(r.server_name, r.channel_id, r.role_id, r.message_id, r.bonus_role_id)

LoadedConfig(rows) ==
  LET data == DataRows(rows)
  IN [g \in {data[i].guild_id : i \in 1..Len(data)} \ {""} |->
        LoadedConfigOf(rows, g)]

(***************************************************************************)
(* Grant workflow: CheckEligibilityButton.callback and its background      *)
(* task.  grant[h] is one invocation; pc names the await it is suspended   *)
(* at.                                                                     *)
(***************************************************************************)
Inv == 1..MaxInv

IdleGrant ==
  [pc |-> "idle", guild |-> "", user |-> 0, role |-> 0, resp |-> "",
   sent |-> FALSE, applied |-> FALSE, appended |-> FALSE, saveStarted |-> FALSE,
   payload |-> <<>>,
   \* What held when the button was pressed, and what happened since.
   eligible |-> FALSE, hadConfig |-> FALSE, failed |-> FALSE, after |-> {},
   roleRef |-> "", saveFailed |-> FALSE]

\* The privilege reference of guild g's configuration: "none" without an
\* entry, "unset", "malformed" (not a digit string), "dangling" (no role of
\* the guild has that id) or "live".
RoleRef(g) ==
  IF ~HasConfig(g) THEN "none"
  ELSE IF guild_config[g].role_id \in {NoneVal, ""} THEN "unset"
  ELSE IF guild_config[g].role_id \notin {"10", "20", "99", "100", "200"}
    THEN "malformed"
  ELSE IF IntOf(guild_config[g].role_id) \notin GuildRoles(g) THEN "dangling"
  ELSE "live"

\* The invocations that had fully finished (background task included).
GrantsDone == {k \in Inv : grant[k].pc = "done"}

\* A mis-ordered check: the role test is skipped.
CheckOutcome_NoAlreadyCheck(g, m) ==
  IF StrOf(m) \notin valid_uids THEN "NotEligible"
  ELSE IF ~HasConfig(g) THEN "GuildNotConfigured"
  ELSE IF ~Truthy(guild_config[g].role_id) \/ ~IsDigit(guild_config[g].role_id)
    THEN "ConfigInvalid"
  ELSE IF IntOf(guild_config[g].role_id) \notin GuildRoles(g) THEN "ConfigInvalid"
  ELSE "Grant"

\* The roster test is skipped.
CheckOutcome_NoRosterCheck(g, m) ==
  IF ~HasConfig(g) THEN "GuildNotConfigured"
  ELSE IF ~Truthy(guild_config[g].role_id) \/ ~IsDigit(guild_config[g].role_id)
    THEN "ConfigInvalid"
  ELSE IF IntOf(guild_config[g].role_id) \notin GuildRoles(g) THEN "ConfigInvalid"
  ELSE IF IntOf(guild_config[g].role_id) \in memberRoles[g][m] THEN "AlreadyGranted"
  ELSE "Grant"

\* A missing configuration is reported as an invalid one.
CheckOutcome_NoConfigCheck(g, m) ==
  IF StrOf(m) \notin valid_uids THEN "NotEligible"
  ELSE IF ~HasConfig(g) THEN "ConfigInvalid"
  ELSE IF ~Truthy(guild_config[g].role_id) \/ ~IsDigit(guild_config[g].role_id)
    THEN "ConfigInvalid"
  ELSE IF IntOf(guild_config[g].role_id) \notin GuildRoles(g) THEN "ConfigInvalid"
  ELSE IF IntOf(guild_config[g].role_id) \in memberRoles[g][m] THEN "AlreadyGranted"
  ELSE "Grant"

\* The role lookup (guild.get_role) is skipped.
CheckOutcome_NoRoleLookup(g, m) ==
  IF StrOf(m) \notin valid_uids THEN "NotEligible"
  ELSE IF ~HasConfig(g) THEN "GuildNotConfigured"
  ELSE IF ~Truthy(guild_config[g].role_id) \/ ~IsDigit(guild_config[g].role_id)
    THEN "ConfigInvalid"
  ELSE IF IntOf(guild_config[g].role_id) \in memberRoles[g][m] THEN "AlreadyGranted"
  ELSE "Grant"

\* The checks of the callback before its first await, in the code's order:
\* roster, guild configuration, role id, role lookup, role already held.
CheckOutcome(g, m) ==
  IF StrOf(m) \notin valid_uids THEN "NotEligible"
  ELSE IF ~HasConfig(g) THEN "GuildNotConfigured"
  ELSE IF ~Truthy(guild_config[g].role_id) \/ ~IsDigit(guild_config[g].role_id)
    THEN "ConfigInvalid"
  ELSE IF IntOf(guild_config[g].role_id) \notin GuildRoles(g) THEN "ConfigInvalid"
  ELSE IF IntOf(guild_config[g].role_id) \in memberRoles[g][m] THEN "AlreadyGranted"
  ELSE "Grant"

\* A member presses Check Eligibility: the callback runs to its first await,
\* which is add_roles or the send of a terminal response.  interaction.user
\* carries the roles the member holds at the press.
GrantPress(h, g, m) ==
  /\ grant[h].pc = "idle"
  /\ \A k \in 1..(h - 1) : grant[k].pc # "idle"
  /\ LET out == CheckOutcome(g, m)
         base == [grant[h] EXCEPT !.guild = g, !.user = m, !.after = GrantsDone,
                    !.eligible = (StrOf(m) \in valid_uids),
                    !.hadConfig = HasConfig(g), !.roleRef = RoleRef(g)]
     IN grant' = [grant EXCEPT ![h] =
          IF out = "Grant"
          THEN [base EXCEPT !.pc = "add_roles",
                            !.role = IntOf(guild_config[g].role_id)]
          ELSE [base EXCEPT !.pc = "send", !.resp = out]]
  /\ UNCHANGED <<adminVars, dmVars, sheetVars, memberRoles, claimVars, now>>

\* add_roles returned: the member holds the role; the success response is
\* built and its send awaited.
AddRolesOk(h) ==
  /\ grant[h].pc = "add_roles"
  /\ memberRoles' = [memberRoles EXCEPT ![grant[h].guild][grant[h].user] =
                       @ \cup {grant[h].role}]
  /\ grant' = [grant EXCEPT ![h].pc = "send", ![h].resp = "Granted",
                            ![h].applied = TRUE]
  /\ UNCHANGED <<adminVars, dmVars, sheetVars, claimVars, now>>

\* The except branches forget to return and fall through to the success path.
AfterAddRolesFailure_FallThrough(rec) ==
  [rec EXCEPT !.pc = "send", !.resp = "Granted"]

\* except discord.Forbidden / discord.HTTPException: return the error response.
AfterAddRolesFailure(rec) ==
  [rec EXCEPT !.pc = "send", !.resp = "GrantFailed"]

\* add_roles raised discord.Forbidden or another discord.HTTPException.
AddRolesFail(h) ==
  /\ grant[h].pc = "add_roles"
  /\ grant' = [grant EXCEPT ![h] =
                 [AfterAddRolesFailure(grant[h]) EXCEPT !.failed = TRUE]]
  /\ UNCHANGED <<adminVars, dmVars, sheetVars, memberRoles, claimVars, now>>

\* interaction.response.send_message returned.  After the success response the
\* callback creates the background task; every other response ends it.
SendOk(h) ==
  /\ grant[h].pc = "send"
  /\ grant' = [grant EXCEPT ![h].sent = TRUE,
                 ![h].pc = IF grant[h].resp = "Granted" THEN "bg" ELSE "done"]
  /\ UNCHANGED <<adminVars, dmVars, sheetVars, memberRoles, claimVars, now>>

\* send_message raised (the interaction expired, a transport error): the
\* exception leaves the callback.
SendFail(h) ==
  /\ grant[h].pc = "send"
  /\ grant' = [grant EXCEPT ![h].pc = "done"]
  /\ UNCHANGED <<adminVars, dmVars, sheetVars, memberRoles, claimVars, now>>

\* The record is not in memory when the save starts.
HistoryAppend_NotYet(g, rec) == granted_history

\* granted_history.setdefault(guild_id_str, []).append(history_entry)
HistoryAppend(g, rec) ==
  IF g \in DOMAIN granted_history
  THEN [granted_history EXCEPT ![g] = Append(@, rec)]
  ELSE [x \in DOMAIN granted_history \cup {g} |->
          IF x = g THEN <<rec>> ELSE granted_history[x]]

\* background_save_history up to the first await inside
\* save_granted_history_sheet (the worksheet lookup).
BgAppend(h) ==
  /\ grant[h].pc = "bg"
  /\ granted_history' = HistoryAppend(grant[h].guild,
        [uid |-> StrOf(grant[h].user), username |-> UserName(grant[h].user),
         time |-> IsoNow])
  /\ grant' = [grant EXCEPT ![h].pc = "save_ws", ![h].appended = TRUE,
                            ![h].saveStarted = TRUE]
  /\ UNCHANGED <<adminVars, valid_uids, user_image_map, guild_config, sheetVars,
                 memberRoles, claimVars, now>>

\* The worksheet lookup returned: data_to_write is built from the memory of
\* this moment and the worker thread of _update is started.
SaveGotWorksheet(h) ==
  /\ grant[h].pc = "save_ws"
  /\ grant' = [grant EXCEPT ![h].pc = "save_clear", ![h].payload = HistPayload]
  /\ UNCHANGED <<adminVars, dmVars, sheetVars, memberRoles, claimVars, now>>

\* The failure handling undoes the append of the record.
HistoryAfterSaveFailure_Rollback(hist, g) ==
  IF g \in DOMAIN hist /\ hist[g] # <<>>
  THEN [hist EXCEPT ![g] = SubSeq(@, 1, Len(@) - 1)]
  ELSE hist

\* The in-memory history after a failed save: the failure is logged (in
\* save_granted_history_sheet, in _update, or in the except branch of
\* background_save_history) and the memory is left as it is.
HistoryAfterSaveFailure(hist, g) == hist

\* The worksheet lookup returned None: the save logs and returns.
SaveNoWorksheet(h) ==
  /\ grant[h].pc = "save_ws"
  /\ grant' = [grant EXCEPT ![h].pc = "done", ![h].saveFailed = TRUE]
  /\ granted_history' = HistoryAfterSaveFailure(granted_history, grant[h].guild)
  /\ UNCHANGED <<adminVars, valid_uids, user_image_map, guild_config,
                 sheetVars, memberRoles, claimVars, now>>

\* _update in its worker thread: ws.clear()
SaveClear(h) ==
  /\ grant[h].pc = "save_clear"
  /\ histSheet' = <<>>
  /\ grant' = [grant EXCEPT ![h].pc = "save_update"]
  /\ UNCHANGED <<adminVars, dmVars, bonusSheet, memberRoles, claimVars, now>>

\* _update in its worker thread: ws.update('A1', data_to_write, ...)
SaveUpdate(h) ==
  /\ grant[h].pc = "save_update"
  /\ histSheet' = StoredRows(grant[h].payload)
  /\ grant' = [grant EXCEPT ![h].pc = "done", ![h].payload = <<>>]
  /\ UNCHANGED <<adminVars, dmVars, bonusSheet, memberRoles, claimVars, now>>

\* ws.clear() or ws.update() raised APIError: _update logs and returns.
SaveApiError(h) ==
  /\ grant[h].pc \in {"save_clear", "save_update"}
  /\ grant' = [grant EXCEPT ![h].pc = "done", ![h].payload = <<>>,
                            ![h].saveFailed = TRUE]
  /\ granted_history' = HistoryAfterSaveFailure(granted_history, grant[h].guild)
  /\ UNCHANGED <<adminVars, valid_uids, user_image_map, guild_config,
                 sheetVars, memberRoles, claimVars, now>>

GrantStep(h) ==
  \/ AddRolesOk(h)
  \/ AddRolesFail(h)
  \/ SendOk(h)
  \/ SendFail(h)
  \/ BgAppend(h)
  \/ SaveGotWorksheet(h)
  \/ SaveNoWorksheet(h)
  \/ SaveClear(h)
  \/ SaveUpdate(h)
  \/ SaveApiError(h)

(***************************************************************************)
(* The grant workflow alone.  The collections are as load_all_data left    *)
(* them: a roster, the guilds' configurations, no history yet.             *)
(***************************************************************************)
InitRosters == {{"100"}, {"100", "200"}}

\* g1 is set up with a live role; g2 has no entry, or one /bonus_setting made
\* (no role_id), or one whose role id is malformed or names a deleted role.
InitConfigs ==
  { [g \in {"g1"} |-> Conf("G1", "1", "10", "5", NoneVal)] }
  \cup
  { [g \in {"g1", "g2"} |->
       IF g = "g1" THEN Conf("G1", "1", "10", "5", NoneVal)
       ELSE Conf("G2", c, r, c, "20")] :
     <<c, r>> \in {<<NoneVal, NoneVal>>, <<"1", "abc">>, <<"1", "99">>} }

\* No /bonus was invoked.
NoClaims ==
  /\ cmd = <<>>
  /\ view = <<>>
  /\ press = <<>>

\* The worksheets were created by the bot (automatic format) or prepared by an
\* operator with plain-text columns.
SheetFormats == {"automatic", "text"}

\* No operator command runs and no pager exists; the configuration and roster
\* worksheets are not looked at.
NoAdmin ==
  /\ cfgSheet = <<>>
  /\ uidSheet = <<>>
  /\ sheetFormat \in SheetFormats
  /\ prompts = InitialPrompts
  /\ op = <<>>
  /\ pager = <<>>
  /\ nav = <<>>

InitGrant ==
  /\ valid_uids \in InitRosters
  /\ user_image_map = [u \in {"100"} |-> "img://a"]
  /\ guild_config \in InitConfigs
  /\ granted_history = [g \in {} |-> <<>>]
  /\ histSheet = <<>>
  /\ bonusSheet = <<>>
  /\ memberRoles = [g \in Guilds |-> [m \in Members |-> {}]]
  /\ grant = [h \in Inv |-> IdleGrant]
  /\ NoClaims
  /\ NoAdmin
  /\ now = 0

NextGrant ==
  \/ \E h \in Inv, g \in Guilds, m \in Members : GrantPress(h, g, m)
  \/ \E h \in Inv : GrantStep(h)

SpecGrant == InitGrant /\ [][NextGrant]_vars

(***************************************************************************)
(* parse_duration_to_seconds.  A text is a sequence of characters.         *)
(***************************************************************************)
DigitChars == {"0", "1", "2", "3", "4", "5", "6", "7", "8", "9"}
SpaceChars == {" "}
UnitChars == {"s", "m", "h", "d"}

\* str.lower(), character by character, on the letters that occur.
LowerChar(c) ==
  CASE c = "S" -> "s" [] c = "M" -> "m" [] c = "H" -> "h" [] c = "D" -> "d"
    [] c = "A" -> "a" [] OTHER -> c

Lower(text) == [i \in 1..Len(text) |-> LowerChar(text[i])]

RECURSIVE LStrip(_)
LStrip(text) ==
  IF text # <<>> /\ Head(text) \in SpaceChars THEN LStrip(Tail(text)) ELSE text

RECURSIVE RStrip(_)
RStrip(text) ==
  IF text # <<>> /\ text[Len(text)] \in SpaceChars
  THEN RStrip(SubSeq(text, 1, Len(text) - 1)) ELSE text

\* str.strip()
Strip(text) == RStrip(LStrip(text))

\* Length of the longest prefix of text whose characters are all in class.
RECURSIVE PrefixLen(_, _)
PrefixLen(text, class) ==
  IF text # <<>> /\ Head(text) \in class
  THEN 1 + PrefixLen(Tail(text), class) ELSE 0

DigitVal(c) ==
  CASE c = "0" -> 0 [] c = "1" -> 1 [] c = "2" -> 2 [] c = "3" -> 3
    [] c = "4" -> 4 [] c = "5" -> 5 [] c = "6" -> 6 [] c = "7" -> 7
    [] c = "8" -> 8 [] c = "9" -> 9

\* int() of a sequence of digit characters.
RECURSIVE IntOfDigits(_)
IntOfDigits(ds) ==
  IF ds = <<>> THEN 0
  ELSE 10 * IntOfDigits(SubSeq(ds, 1, Len(ds) - 1)) + DigitVal(ds[Len(ds)])

\* re.fullmatch(r"(\d+)\s*([smhd])", t): the groups, or matched = FALSE.
\* The three character classes are disjoint, so the greedy match is the only one.
DurationMatch(t) ==
  LET nd == PrefixLen(t, DigitChars)
      rest == SubSeq(t, nd + 1, Len(t))
      ns == PrefixLen(rest, SpaceChars)
      tail == SubSeq(rest, ns + 1, Len(rest))
  IN IF nd >= 1 /\ Len(tail) = 1 /\ tail[1] \in UnitChars
     THEN [matched |-> TRUE, num |-> IntOfDigits(SubSeq(t, 1, nd)), unit |-> tail[1]]
     ELSE [matched |-> FALSE, num |-> 0, unit |-> ""]

\* Every unit counts as seconds.
Multiplier_SecondsOnly(u) == 1

\* multipliers = {"s": 1, "m": 60, "h": 3600, "d": 86400}
Multiplier(u) ==
  CASE u = "s" -> 1 [] u = "m" -> 60 [] u = "h" -> 3600 [] u = "d" -> 86400

\* The value returned for a text that does not match ("Using default 15s").
DefaultSeconds == 15

\* parse_duration_to_seconds: the result of the call.  No path of the function
\* raises, so raised is FALSE in every result.
parse_duration_to_seconds(text) ==
  LET m == DurationMatch(Strip(Lower(text)))
  IN IF ~m.matched THEN [raised |-> FALSE, value |-> DefaultSeconds]
     ELSE [raised |-> FALSE, value |-> m.num * Multiplier(m.unit)]

(***************************************************************************)
(* Claim workflow: bonus_command posts a message with a BonusView; each    *)
(* press of its BonusButton runs BonusButton.callback.                     *)
(*                                                                         *)
(* view[c] is the BonusView of /bonus invocation c with its one button and *)
(* the channel message that carries it.  The library keeps a sent view in  *)
(* its view store until the view times out: a press of a stored view's     *)
(* button restarts the view's timeout and runs the callback; a press of a  *)
(* component whose view is no longer stored runs nothing.  What members    *)
(* see in the channel is the message as it was last sent or edited.        *)
(***************************************************************************)
Cmds == 1..MaxCmd
Presses == 1..MaxPress

\* The duration texts an invoker gives: '1s', '0s', 'abc'.
DurationTexts ==
  {<<"1", "s">>, <<"0", "s">>, <<"a", "b", "c">>}

IdleCmd ==
  [pc |-> "idle", seconds |-> 0, resp |-> "", wake |-> 0,
   \* What held when the command was invoked: the invoker was an
   \* administrator or held an authorized privilege; the duration text was
   \* digits followed by a unit.
   allowed |-> FALSE, wellFormed |-> FALSE,
   \* The duration argument.
   text |-> <<>>]

NoView ==
  [created |-> FALSE, guild |-> "", timeout |-> 0,
   \* The channel message: "none", "posted" or "deleted"; how its button is
   \* shown; whether its text was ever edited.
   msg |-> "none", shownDisabled |-> FALSE, edited |-> FALSE,
   \* The BonusButton object of the view.
   disabled |-> FALSE, label |-> "Claim Bonus",
   \* The library's timeout of the view, and the instant the window closes.
   expiry |-> 0, finished |-> FALSE, deadline |-> 0]

IdlePress ==
  [pc |-> "idle", view |-> 0, user |-> 0, time |-> 0, resp |-> "",
   logged |-> FALSE,
   \* Whether the press arrived after the deadline of its control.
   late |-> FALSE]

\* required_role_id: int(bonus_role_id) when the cell is a digit string, else
\* None, written 0 here (both are falsy in the test that uses it).
RequiredRoleId(g) ==
  LET s == IF HasConfig(g) THEN guild_config[g].bonus_role_id ELSE NoneVal
  IN IF Truthy(s) /\ IsDigit(s) THEN IntOf(s) ELSE 0

\* A guild without a configured role lets every member launch.
HasBonusRole_DefaultAllow(g, m) ==
  RequiredRoleId(g) = 0 \/ RequiredRoleId(g) \in memberRoles[g][m]

\* has_bonus_role = required_role_id and any(r.id == required_role_id for r in roles)
HasBonusRole(g, m) ==
  RequiredRoleId(g) # 0 /\ RequiredRoleId(g) \in memberRoles[g][m]

\* bonus_command before its first await: the authorization test, the bot's
\* channel permissions, the duration.  "Post" when a view is built and sent.
LaunchOutcome(g, m, admin, canPost, text) ==
  LET r == parse_duration_to_seconds(text)
  IN IF ~(admin \/ HasBonusRole(g, m)) THEN "Unauthorized"
     ELSE IF ~canPost THEN "BotLacksPermission"
     ELSE IF r.raised THEN "InvalidDuration"
     ELSE IF r.value <= 0 THEN "DurationNotPositive"
     ELSE "Post"

\* The privileges the guild authorizes to launch a claim: the role its
\* bonus_role_id cell names, when it names one.
AuthorizedSet(g) ==
  IF HasConfig(g) /\ guild_config[g].bonus_role_id \in {"10", "20", "99"}
  THEN {IntOf(guild_config[g].bonus_role_id)} ELSE {}

\* /bonus is invoked by member m (administrator or not) in guild g.
BonusCmd(c, g, m, admin, canPost, text) ==
  /\ cmd[c].pc = "idle"
  /\ \A k \in 1..(c - 1) : cmd[k].pc # "idle"
  /\ LET out == LaunchOutcome(g, m, admin, canPost, text)
         base == [cmd[c] EXCEPT
                    !.allowed =
                      (admin \/ AuthorizedSet(g) \cap memberRoles[g][m] # {}),
                    !.wellFormed = DurationMatch(Strip(Lower(text))).matched,
                    !.text = text]
     IN IF out = "Post"
        THEN /\ cmd' = [cmd EXCEPT ![c] =
                  [base EXCEPT !.pc = "channel_send",
                               !.seconds = parse_duration_to_seconds(text).value]]
             /\ view' = [view EXCEPT ![c] =
                  [NoView EXCEPT !.created = TRUE, !.guild = g,
                                 !.timeout = parse_duration_to_seconds(text).value]]
        ELSE /\ cmd' = [cmd EXCEPT ![c] =
                  [base EXCEPT !.pc = "final_send", !.resp = out]]
             /\ view' = view
  /\ UNCHANGED <<adminVars, dmVars, sheetVars, memberRoles, grant, press, now>>

\* channel.send returned: the message is in the channel with the button as the
\* view holds it, the view is stored and its timeout starts.
ChannelSendOk(c) ==
  /\ cmd[c].pc = "channel_send"
  /\ view' = [view EXCEPT ![c].msg = "posted",
                          ![c].shownDisabled = view[c].disabled,
                          ![c].expiry = now + view[c].timeout,
                          ![c].deadline = now + view[c].timeout]
  /\ cmd' = [cmd EXCEPT ![c].pc = "response_send", ![c].resp = "Posted"]
  /\ UNCHANGED <<adminVars, dmVars, sheetVars, memberRoles, grant, press, now>>

\* channel.send raised Forbidden or HTTPException: the error response is sent.
ChannelSendFail(c) ==
  /\ cmd[c].pc = "channel_send"
  /\ cmd' = [cmd EXCEPT ![c].pc = "final_send", ![c].resp = "PostFailed"]
  /\ UNCHANGED <<adminVars, dmVars, sheetVars, memberRoles, grant, view, press, now>>

\* The confirmation was sent: auto_delete_message is created and sleeps.
ResponseSendOk(c) ==
  /\ cmd[c].pc = "response_send"
  /\ cmd' = [cmd EXCEPT ![c].pc = "sleep", ![c].wake = now + cmd[c].seconds]
  /\ UNCHANGED <<adminVars, dmVars, sheetVars, memberRoles, grant, view, press, now>>

\* The confirmation raised an HTTPException: the same except branches catch it
\* and return the error response; auto_delete_message is never created.
ResponseSendFail(c) ==
  /\ cmd[c].pc = "response_send"
  /\ cmd' = [cmd EXCEPT ![c].pc = "final_send", ![c].resp = "PostFailed"]
  /\ UNCHANGED <<adminVars, dmVars, sheetVars, memberRoles, grant, view, press, now>>

\* The send of a terminal response returned or raised; the command ends.
FinalSend(c) ==
  /\ cmd[c].pc = "final_send"
  /\ cmd' = [cmd EXCEPT ![c].pc = "done"]
  /\ UNCHANGED <<adminVars, dmVars, sheetVars, memberRoles, grant, view, press, now>>

\* auto_delete_message after asyncio.sleep(seconds): msg.delete() succeeded.
AutoDeleteOk(c) ==
  /\ cmd[c].pc = "sleep"
  /\ now >= cmd[c].wake
  /\ view' = [view EXCEPT ![c].msg = "deleted"]
  /\ cmd' = [cmd EXCEPT ![c].pc = "done"]
  /\ UNCHANGED <<adminVars, dmVars, sheetVars, memberRoles, grant, press, now>>

\* msg.delete() raised (NotFound, Forbidden, ...): logged, the message stays.
AutoDeleteFail(c) ==
  /\ cmd[c].pc = "sleep"
  /\ now >= cmd[c].wake
  /\ cmd' = [cmd EXCEPT ![c].pc = "done"]
  /\ UNCHANGED <<adminVars, dmVars, sheetVars, memberRoles, grant, view, press, now>>

\* The view's timeout elapsed: the library drops the view from its store and
\* runs BonusView.on_timeout, which sets item.disabled on the button object.
\* No message is edited.
ViewTimeout(c) ==
  /\ view[c].msg # "none"
  /\ ~view[c].finished
  /\ now >= view[c].expiry
  /\ view' = [view EXCEPT ![c].finished = TRUE, ![c].disabled = TRUE]
  /\ UNCHANGED <<adminVars, dmVars, sheetVars, memberRoles, grant, cmd, press, now>>

\* A view whose timeout is due and has not run yet.
TimeoutDue(c) ==
  /\ view[c].msg # "none"
  /\ ~view[c].finished
  /\ now >= view[c].expiry

\* A second passes.  The library's timers run before the clock moves on.
Tick ==
  /\ now < MaxTime
  /\ \A c \in Cmds : ~TimeoutDue(c)
  /\ now' = now + 1
  /\ UNCHANGED <<adminVars, dmVars, sheetVars, memberRoles, grant, claimVars>>

BonusHeader ==
  [kind |-> "header", cols |-> <<"guild_id", "username", "uid", "timestamp">>]

\* A member presses the button shown in the channel.  The library runs the
\* callback of a stored view and restarts its timeout; the callback reads
\* the user and the time and awaits log_func, which first looks the
\* worksheet up.
PressBonus(p, c, m) ==
  /\ press[p].pc = "idle"
  /\ \A k \in 1..(p - 1) : press[k].pc # "idle"
  /\ view[c].msg = "posted"
  /\ ~view[c].shownDisabled
  /\ ~view[c].finished
  /\ press' = [press EXCEPT ![p] =
       [IdlePress EXCEPT !.pc = "log_worksheet", !.view = c, !.user = m,
                         !.time = now, !.late = (now > view[c].deadline)]]
  /\ view' = [view EXCEPT ![c].expiry = now + view[c].timeout]
  /\ UNCHANGED <<adminVars, dmVars, sheetVars, memberRoles, grant, cmd, now>>

\* A press of the button of a view that has timed out: no callback runs and
\* the member's client reports that the interaction failed.
PressFinished(p, c, m) ==
  /\ press[p].pc = "idle"
  /\ \A k \in 1..(p - 1) : press[k].pc # "idle"
  /\ view[c].msg = "posted"
  /\ ~view[c].shownDisabled
  /\ view[c].finished
  /\ press' = [press EXCEPT ![p] =
       [IdlePress EXCEPT !.pc = "done", !.view = c, !.user = m, !.time = now,
                         !.resp = "InteractionFailed",
                         !.late = (now > view[c].deadline)]]
  /\ UNCHANGED <<adminVars, dmVars, sheetVars, memberRoles, grant, cmd, view, now>>

\* append_bonus_log_to_sheet: the worksheet lookup returned the worksheet.
LogGotWorksheet(p) ==
  /\ press[p].pc = "log_worksheet"
  /\ press' = [press EXCEPT ![p].pc = "log_header"]
  /\ UNCHANGED <<adminVars, dmVars, sheetVars, memberRoles, grant, cmd, view, now>>

\* The lookup returned None: log_func logs and returns without a row.
LogNoWorksheet(p) ==
  /\ press[p].pc = "log_worksheet"
  /\ press' = [press EXCEPT ![p].pc = "send"]
  /\ UNCHANGED <<adminVars, dmVars, sheetVars, memberRoles, grant, cmd, view, now>>

\* _ensure_header_and_append in its worker thread: header = ws.row_values(1)
LogReadHeader(p) ==
  /\ press[p].pc = "log_header"
  /\ LET ok == bonusSheet # <<>> /\ bonusSheet[1] = BonusHeader
     IN press' = [press EXCEPT
                    ![p].pc = IF ok THEN "log_append" ELSE "log_insert"]
  /\ UNCHANGED <<adminVars, dmVars, sheetVars, memberRoles, grant, cmd, view, now>>

\* ws.insert_row(expected_header, 1)
LogInsertHeader(p) ==
  /\ press[p].pc = "log_insert"
  /\ bonusSheet' = <<BonusHeader>> \o bonusSheet
  /\ press' = [press EXCEPT ![p].pc = "log_append"]
  /\ UNCHANGED <<adminVars, dmVars, histSheet, memberRoles, grant, cmd, view, now>>

\* The ledger row of a press.
BonusRow(p) ==
  [kind |-> "data", guild_id |-> Entered(sheetFormat, view[press[p].view].guild),
   username |-> UserName(press[p].user),
   uid |-> UserEntered(QuoteUid(StrOf(press[p].user))),
   timestamp |-> format_iso_time([fmt |-> "iso", t |-> press[p].time])]

\* ws.append_row([guild_id, username, uid_str, time_str]); log_func returns.
LogAppendRow(p) ==
  /\ press[p].pc = "log_append"
  /\ bonusSheet' = Append(bonusSheet, BonusRow(p))
  /\ press' = [press EXCEPT ![p].pc = "send", ![p].logged = TRUE]
  /\ UNCHANGED <<adminVars, dmVars, histSheet, memberRoles, grant, cmd, view, now>>

\* A worksheet call raised APIError: caught in the worker, log_func returns.
LogApiError(p) ==
  /\ press[p].pc \in {"log_header", "log_insert", "log_append"}
  /\ press' = [press EXCEPT ![p].pc = "send"]
  /\ UNCHANGED <<adminVars, dmVars, sheetVars, memberRoles, grant, cmd, view, now>>

\* The button after the success response: self.disabled = True,
\* self.label = "Claimed".
MarkClaimed(v) == [v EXCEPT !.disabled = TRUE, !.label = "Claimed"]

\* The success response was sent; the button object is marked and
\* edit_original_response (an edit of that response, not of the channel
\* message) is awaited.
ClaimSendOk(p) ==
  /\ press[p].pc = "send"
  /\ press' = [press EXCEPT ![p].pc = "edit", ![p].resp = "Claimed"]
  /\ view' = [view EXCEPT ![press[p].view] = MarkClaimed(@)]
  /\ UNCHANGED <<adminVars, dmVars, sheetVars, memberRoles, grant, cmd, now>>

\* The success response raised: the except branch sends the error response.
ClaimSendFail(p) ==
  /\ press[p].pc = "send"
  /\ press' = [press EXCEPT ![p].pc = "error_send", ![p].resp = "ClaimError"]
  /\ UNCHANGED <<adminVars, dmVars, sheetVars, memberRoles, grant, cmd, view, now>>

\* edit_original_response returned, or raised (the except branch then fails
\* to respond a second time): the callback ends.
ClaimEditReturn(p) ==
  /\ press[p].pc = "edit"
  /\ press' = [press EXCEPT ![p].pc = "done"]
  /\ UNCHANGED <<adminVars, dmVars, sheetVars, memberRoles, grant, cmd, view, now>>

\* The send of the error response returned or raised; the callback ends.
ClaimErrorSend(p) ==
  /\ press[p].pc = "error_send"
  /\ press' = [press EXCEPT ![p].pc = "done"]
  /\ UNCHANGED <<adminVars, dmVars, sheetVars, memberRoles, grant, cmd, view, now>>

CmdStep(c) ==
  \/ ChannelSendOk(c)
  \/ ChannelSendFail(c)
  \/ ResponseSendOk(c)
  \/ ResponseSendFail(c)
  \/ FinalSend(c)
  \/ AutoDeleteOk(c)
  \/ AutoDeleteFail(c)
  \/ ViewTimeout(c)

PressStep(p) ==
  \/ LogGotWorksheet(p)
  \/ LogNoWorksheet(p)
  \/ LogReadHeader(p)
  \/ LogInsertHeader(p)
  \/ LogAppendRow(p)
  \/ LogApiError(p)
  \/ ClaimSendOk(p)
  \/ ClaimSendFail(p)
  \/ ClaimEditReturn(p)
  \/ ClaimErrorSend(p)

(***************************************************************************)
(* The claim workflow alone.  Guild g1 has an entry whose bonus_role_id    *)
(* cell is unset, names role 20 or is malformed; g2 has no entry.  Member  *)
(* 100 holds role 20 in g1, member 200 holds role 10.                      *)
(***************************************************************************)
InitClaimConfigs ==
  { [g \in {"g1"} |-> Conf("G1", "1", "10", "5", b)] : b \in {NoneVal, "20", "abc"} }

InitClaim ==
  /\ valid_uids = {"100"}
  /\ user_image_map = [u \in {"100"} |-> "img://a"]
  /\ guild_config \in InitClaimConfigs
  /\ granted_history = [g \in {} |-> <<>>]
  /\ histSheet = <<>>
  /\ bonusSheet = <<>>
  /\ memberRoles = [g \in Guilds |-> [m \in Members |->
                      IF g = "g1" THEN (IF m = 100 THEN {20} ELSE {10}) ELSE {}]]
  /\ grant = [h \in Inv |-> IdleGrant]
  /\ cmd = [c \in Cmds |-> IdleCmd]
  /\ view = [c \in Cmds |-> NoView]
  /\ press = [p \in Presses |-> IdlePress]
  /\ NoAdmin
  /\ now = 0

\* /bonus invocations and what follows them, without presses.
NextLaunch ==
  \/ \E c \in Cmds, g \in Guilds, m \in Members, admin \in BOOLEAN,
        canPost \in BOOLEAN, text \in DurationTexts :
       BonusCmd(c, g, m, admin, canPost, text)
  \/ \E c \in Cmds : CmdStep(c)
  \/ Tick

SpecLaunch == InitClaim /\ [][NextLaunch]_vars

\* /bonus invocations in guild g1 and the presses of the posted buttons.
NextClaim ==
  \/ \E c \in Cmds, m \in Members, admin \in BOOLEAN,
        canPost \in BOOLEAN, text \in DurationTexts :
       BonusCmd(c, "g1", m, admin, canPost, text)
  \/ \E c \in Cmds : CmdStep(c)
  \/ \E p \in Presses, c \in Cmds, m \in Members : PressBonus(p, c, m)
  \/ \E p \in Presses, c \in Cmds, m \in Members : PressFinished(p, c, m)
  \/ \E p \in Presses : PressStep(p)
  \/ Tick

SpecClaim == InitClaim /\ [][NextClaim]_vars

(***************************************************************************)
(* The duration argument of /bonus.  An administrator of g1 invokes /bonus *)
(* with a text made of optional spaces, digits, optional spaces, a unit    *)
(* letter in either case and optional spaces, or with a text of another    *)
(* shape.                                                                  *)
(***************************************************************************)
DurationParts ==
  [lead : {<<>>, <<" ">>},
   digits : {<<"0">>, <<"1">>, <<"1", "0">>, <<"0", "2">>},
   mid : {<<>>, <<" ">>, <<" ", " ">>},
   unit : {"s", "m", "h", "d", "S", "M", "H", "D"},
   trail : {<<>>, <<" ">>}]

TextOf(parts) ==
  parts.lead \o parts.digits \o parts.mid \o <<parts.unit>> \o parts.trail

DurationInputs ==
  {TextOf(parts) : parts \in DurationParts}
    \cup {<<"a", "b", "c">>, <<"1">>, <<"m">>, <<"1", "m", "s">>}

\* One invocation is followed: the parser keeps nothing between calls.
DurationCmds == Cmds \cap {1}

NextDuration ==
  \/ \E c \in DurationCmds, text \in DurationInputs :
       BonusCmd(c, "g1", 100, TRUE, TRUE, text)
  \/ \E c \in DurationCmds : CmdStep(c)
  \/ Tick

SpecDuration == InitClaim /\ [][NextDuration]_vars

(***************************************************************************)
(* Operator commands and gateway events.  op[o] is one handler invocation; *)
(* kind names the handler and pc the await it is suspended at.  The loads  *)
(* and saves of the DataManager run inside the handler that calls them: a  *)
(* worksheet lookup, then the blocking worksheet calls of a worker thread, *)
(* then the code after the await.                                          *)
(***************************************************************************)
Ops == 1..MaxOp

IdleOp ==
  [pc |-> "idle", kind |-> "", guild |-> "", arg |-> "", resp |-> "",
   \* The dict a load's worker thread returned; the rows a save or a reset
   \* is about to write.
   loaded |-> EmptyDict, rows |-> <<>>,
   \* Whether the worksheet read of a roster reload returned the rows, and
   \* the uids that were in the roster before the reload and not after it.
   readOk |-> FALSE, dropped |-> {},
   \* For a configuration load: the authorized privileges of the handler's
   \* guild in memory when the worksheet was read, if the worksheet was then
   \* what a save of that memory leaves.
   auth |-> {},
   \* /setup: the role argument, the id of the old message it fetches, the
   \* ids of the message it posted and of the message it edited, and the id
   \* of the guild's latest prompt when the command was invoked, if that
   \* prompt was in the channel argument and no other handler was running.
   role |-> "", msg |-> "", posted |-> "", edited |-> "", prior |-> "",
   \* /setup: the exception fetch_message or edit raised, "" when none.
   editErr |-> ""]

\* Slots are used in order.
OpFree(o) ==
  /\ op[o].pc = "idle"
  /\ \A k \in 1..(o - 1) : op[k].pc # "idle"

\* HistoryPagerView of invocation o: the object and the message that shows it.
NoPager ==
  [created |-> FALSE, records |-> <<>>, current_page |-> 0, total_pages |-> 0,
   prevDisabled |-> FALSE, nextDisabled |-> FALSE,
   shown |-> FALSE, shownPrevDisabled |-> FALSE, shownNextDisabled |-> FALSE,
   \* The view's timeout (180 s without an interaction) elapsed.
   timedOut |-> FALSE]

\* The sort key x.get('time', '') of two records compared as strings: on one
\* day an ISO string ('...T...') is greater than a formatted one ('... ...').
TimeKeyLess(a, b) ==
  IF a.time.fmt = b.time.fmt THEN a.time.t < b.time.t
  ELSE a.time.fmt = "utc"

RECURSIVE InsertDesc(_, _)
InsertDesc(x, sorted) ==
  IF sorted = <<>> THEN <<x>>
  ELSE IF TimeKeyLess(x, Head(sorted))
       THEN <<Head(sorted)>> \o InsertDesc(x, Tail(sorted))
       ELSE <<x>> \o sorted

RECURSIVE SortedNewestFirst(_)
\* sorted(records, key=lambda x: x.get('time', ''), reverse=True): stable.
SortedNewestFirst(records) ==
  IF records = <<>> THEN <<>>
  ELSE InsertDesc(Head(records), SortedNewestFirst(Tail(records)))

\* /history, /extractinfo, /reset_history or /reloadlist is invoked in guild
\* g: the handler awaits interaction.response.defer.
DeferredCmd(o, kind, g) ==
  /\ OpFree(o)
  /\ kind \in {"history", "extractinfo", "reset", "reloadlist"}
  /\ op' = [op EXCEPT ![o] = [IdleOp EXCEPT !.pc = "defer", !.kind = kind,
                                            !.guild = g]]
  /\ UNCHANGED <<dmVars, sheetVars, memberRoles, grant, claimVars, now,
                 cfgSheet, uidSheet, sheetFormat, prompts, pager, nav>>

\* defer raised: the exception leaves the handler.
DeferFail(o) ==
  /\ op[o].pc = "defer"
  /\ op' = [op EXCEPT ![o].pc = "done"]
  /\ UNCHANGED <<dmVars, sheetVars, memberRoles, grant, claimVars, now,
                 cfgSheet, uidSheet, sheetFormat, prompts, pager, nav>>

\* reset_history: data_manager.granted_history[guild_id_str] = [] when the
\* guild has a key.
ResetMemory(hist, g) ==
  IF g \in DOMAIN hist THEN [hist EXCEPT ![g] = <<>>] ELSE hist

\* defer returned.  /history starts the history load, /extractinfo the
\* configuration load, /reloadlist the roster load; /reset_history clears the
\* guild's records in memory and looks the worksheet up.
DeferOk(o) ==
  /\ op[o].pc = "defer"
  /\ op' = [op EXCEPT ![o].pc =
              CASE op[o].kind = "history" -> "hload_ws"
                [] op[o].kind = "extractinfo" -> "cload_ws"
                [] op[o].kind = "reset" -> "reset_ws"
                [] op[o].kind = "reloadlist" -> "uload_ws"]
  /\ granted_history' =
       IF op[o].kind = "reset" THEN ResetMemory(granted_history, op[o].guild)
       ELSE granted_history
  /\ UNCHANGED <<valid_uids, user_image_map, guild_config, sheetVars,
                 memberRoles, grant, claimVars, now,
                 cfgSheet, uidSheet, sheetFormat, prompts, pager, nav>>

\* self.per_page of a HistoryPagerView.
PerPage == 10

\* The quotient is rounded down.
CeilDiv_Floor(n, d) == n \div d

\* ceil(n / d) for n >= 0, d > 0.
CeilDiv(n, d) == (n + d - 1) \div d

\* HistoryPagerView.__init__(records)
NewPager(records) ==
  LET total == IF records # <<>> THEN CeilDiv(Len(records), PerPage) ELSE 1
  IN [NoPager EXCEPT !.created = TRUE, !.records = records,
                     !.current_page = 0, !.total_pages = total,
                     !.prevDisabled = TRUE, !.nextDisabled = (0 >= total - 1)]

\* get_page_embed: page_records = self.records[start_index:end_index] with
\* start_index = page * per_page and end_index = start_index + per_page.  A
\* Python slice ends at the end of the list.
PageSlice(records, page) ==
  LET start == page * PerPage
      end == start + PerPage
  IN SubSeq(records, start + 1, IF end < Len(records) THEN end ELSE Len(records))

\* The code after a handler's history load, up to its followup.send, with
\* hist the in-memory history the load left: the response it builds.
AfterHistoryLoad(o, hist) ==
  LET g == op[o].guild
      records == IF g \in DOMAIN hist THEN hist[g] ELSE <<>>
  IN IF op[o].kind = "history"
     THEN IF records = <<>> THEN "NoHistory" ELSE "Pager"
     ELSE IF g \notin DOMAIN guild_config THEN "NoSetup" ELSE "Report"

\* The view /history builds from the guild's records, newest first.
PagerAfterHistoryLoad(o, hist) ==
  LET g == op[o].guild
      records == IF g \in DOMAIN hist THEN hist[g] ELSE <<>>
  IN IF op[o].kind = "history" /\ records # <<>>
     THEN [pager EXCEPT ![o] = NewPager(SortedNewestFirst(records))]
     ELSE pager

\* load_granted_history_sheet: the worksheet lookup returned the worksheet.
HLoadWs(o) ==
  /\ op[o].pc = "hload_ws"
  /\ op' = [op EXCEPT ![o].pc = "hload_read"]
  /\ UNCHANGED <<dmVars, sheetVars, memberRoles, grant, claimVars, now,
                 cfgSheet, uidSheet, sheetFormat, prompts, pager, nav>>

\* The lookup returned None: the load returns and the memory is as it was.
HLoadNoWs(o) ==
  /\ op[o].pc = "hload_ws"
  /\ op' = [op EXCEPT ![o].pc = "send",
                      ![o].resp = AfterHistoryLoad(o, granted_history)]
  /\ pager' = PagerAfterHistoryLoad(o, granted_history)
  /\ UNCHANGED <<dmVars, sheetVars, memberRoles, grant, claimVars, now,
                 cfgSheet, uidSheet, sheetFormat, prompts, nav>>

\* _load in its worker thread: ws.get_all_records(head=1) and the grouping.
HLoadRead(o) ==
  /\ op[o].pc = "hload_read"
  /\ op' = [op EXCEPT ![o].pc = "hload_assign",
                      ![o].loaded = LoadedHistory(histSheet)]
  /\ UNCHANGED <<dmVars, sheetVars, memberRoles, grant, claimVars, now,
                 cfgSheet, uidSheet, sheetFormat, prompts, pager, nav>>

\* get_all_records raised: _load logs and returns the empty dict.
HLoadReadError(o) ==
  /\ op[o].pc = "hload_read"
  /\ op' = [op EXCEPT ![o].pc = "hload_assign", ![o].loaded = EmptyDict]
  /\ UNCHANGED <<dmVars, sheetVars, memberRoles, grant, claimVars, now,
                 cfgSheet, uidSheet, sheetFormat, prompts, pager, nav>>

\* self.granted_history = await asyncio.to_thread(_load), and the handler's
\* code up to followup.send.
HLoadAssign(o) ==
  /\ op[o].pc = "hload_assign"
  /\ granted_history' = op[o].loaded
  /\ op' = [op EXCEPT ![o].pc = "send", ![o].loaded = EmptyDict,
                      ![o].resp = AfterHistoryLoad(o, op[o].loaded)]
  /\ pager' = PagerAfterHistoryLoad(o, op[o].loaded)
  /\ UNCHANGED <<valid_uids, user_image_map, guild_config, sheetVars,
                 memberRoles, grant, claimVars, now,
                 cfgSheet, uidSheet, sheetFormat, prompts, nav>>

\* load_guild_config_sheet of /extractinfo: the worksheet lookup.
CLoadWs(o) ==
  /\ op[o].pc = "cload_ws"
  /\ op' = [op EXCEPT ![o].pc = "cload_read"]
  /\ UNCHANGED <<dmVars, sheetVars, memberRoles, grant, claimVars, now,
                 cfgSheet, uidSheet, sheetFormat, prompts, pager, nav>>

\* The lookup returned None: the configuration in memory is as it was.
CLoadNoWs(o) ==
  /\ op[o].pc = "cload_ws"
  /\ op' = [op EXCEPT ![o].pc = "hload_ws"]
  /\ UNCHANGED <<dmVars, sheetVars, memberRoles, grant, claimVars, now,
                 cfgSheet, uidSheet, sheetFormat, prompts, pager, nav>>

\* _load in its worker thread: ws.get_all_records(head=1) and the dict.
CLoadRead(o) ==
  /\ op[o].pc = "cload_read"
  /\ op' = [op EXCEPT ![o].pc = "cload_assign",
                      ![o].loaded = LoadedConfig(cfgSheet),
                      ![o].readOk = TRUE,
                      ![o].auth = IF cfgSheet = CfgPayload
                                  THEN AuthorizedSet(op[o].guild) ELSE {}]
  /\ UNCHANGED <<dmVars, sheetVars, memberRoles, grant, claimVars, now,
                 cfgSheet, uidSheet, sheetFormat, prompts, pager, nav>>

\* get_all_records raised: _load logs and returns the empty dict.
CLoadReadError(o) ==
  /\ op[o].pc = "cload_read"
  /\ op' = [op EXCEPT ![o].pc = "cload_assign", ![o].loaded = EmptyDict]
  /\ UNCHANGED <<dmVars, sheetVars, memberRoles, grant, claimVars, now,
                 cfgSheet, uidSheet, sheetFormat, prompts, pager, nav>>

\* self.guild_config = await asyncio.to_thread(_load); the history load is
\* next.
CLoadAssign(o) ==
  /\ op[o].pc = "cload_assign"
  /\ guild_config' = op[o].loaded
  /\ op' = [op EXCEPT ![o].pc = "hload_ws", ![o].loaded = EmptyDict]
  /\ UNCHANGED <<valid_uids, user_image_map, granted_history, sheetVars,
                 memberRoles, grant, claimVars, now,
                 cfgSheet, uidSheet, sheetFormat, prompts, pager, nav>>

\* followup.send (or response.send_message) returned: the handler ends.  The
\* pager of /history is shown with its buttons as the view holds them.
OpSendOk(o) ==
  /\ op[o].pc = "send"
  /\ op' = [op EXCEPT ![o].pc = "done"]
  /\ pager' = IF op[o].resp = "Pager"
              THEN [pager EXCEPT ![o].shown = TRUE,
                       ![o].shownPrevDisabled = pager[o].prevDisabled,
                       ![o].shownNextDisabled = pager[o].nextDisabled]
              ELSE pager
  /\ UNCHANGED <<dmVars, sheetVars, memberRoles, grant, claimVars, now,
                 cfgSheet, uidSheet, sheetFormat, prompts, nav>>

\* The send raised; an except branch that sends again fares no better.  The
\* handler ends.
OpSendFail(o) ==
  /\ op[o].pc = "send"
  /\ op' = [op EXCEPT ![o].pc = "done"]
  /\ UNCHANGED <<dmVars, sheetVars, memberRoles, grant, claimVars, now,
                 cfgSheet, uidSheet, sheetFormat, prompts, pager, nav>>

\* reset_history: the worksheet lookup returned the worksheet.
ResetWs(o) ==
  /\ op[o].pc = "reset_ws"
  /\ op' = [op EXCEPT ![o].pc = "reset_read"]
  /\ UNCHANGED <<dmVars, sheetVars, memberRoles, grant, claimVars, now,
                 cfgSheet, uidSheet, sheetFormat, prompts, pager, nav>>

\* The lookup returned None: the operator is told the sheet was not reset.
ResetNoWs(o) ==
  /\ op[o].pc = "reset_ws"
  /\ op' = [op EXCEPT ![o].pc = "send", ![o].resp = "ResetNoSheet"]
  /\ UNCHANGED <<dmVars, sheetVars, memberRoles, grant, claimVars, now,
                 cfgSheet, uidSheet, sheetFormat, prompts, pager, nav>>

\* rows_to_keep: the header and the rows whose guild_id cell is not g.
RowsToKeep(rows, g) ==
  <<rows[1]>> \o SelectSeq(Tail(rows), LAMBDA r : r.guild_id # g)

\* _clear_guild_history_from_sheet in its worker thread: ws.get_all_values()
\* and the choice of the rows to keep; an empty worksheet ends the reset.
ResetRead(o) ==
  /\ op[o].pc = "reset_read"
  /\ op' = [op EXCEPT ![o] =
       IF histSheet = <<>>
       THEN [op[o] EXCEPT !.pc = "send", !.resp = "ResetDone"]
       ELSE [op[o] EXCEPT !.pc = "reset_clear",
                          !.rows = RowsToKeep(histSheet, op[o].guild)]]
  /\ UNCHANGED <<dmVars, sheetVars, memberRoles, grant, claimVars, now,
                 cfgSheet, uidSheet, sheetFormat, prompts, pager, nav>>

\* ws.clear()
ResetClear(o) ==
  /\ op[o].pc = "reset_clear"
  /\ histSheet' = <<>>
  /\ op' = [op EXCEPT ![o].pc = "reset_update"]
  /\ UNCHANGED <<dmVars, bonusSheet, memberRoles, grant, claimVars, now,
                 cfgSheet, uidSheet, sheetFormat, prompts, pager, nav>>

\* A row read with get_all_values and written back with USER_ENTERED: its
\* uid cell carries no quote any more.
ReEnteredRow(row) ==
  IF row.kind = "header" THEN row
  ELSE [row EXCEPT !.uid = Entered(sheetFormat, row.uid),
                   !.guild_id = Entered(sheetFormat, row.guild_id)]

\* ws.update('A1', rows_to_keep, value_input_option='USER_ENTERED')
ResetUpdate(o) ==
  /\ op[o].pc = "reset_update"
  /\ histSheet' = [i \in 1..Len(op[o].rows) |-> ReEnteredRow(op[o].rows[i])]
  /\ op' = [op EXCEPT ![o].pc = "send", ![o].resp = "ResetDone",
                      ![o].rows = <<>>]
  /\ UNCHANGED <<dmVars, bonusSheet, memberRoles, grant, claimVars, now,
                 cfgSheet, uidSheet, sheetFormat, prompts, pager, nav>>

\* A worksheet call of the reset raised: the worker re-raises and the
\* operator is told that only the memory was cleared.
ResetApiError(o) ==
  /\ op[o].pc \in {"reset_read", "reset_clear", "reset_update"}
  /\ op' = [op EXCEPT ![o].pc = "send", ![o].resp = "ResetSheetError",
                      ![o].rows = <<>>]
  /\ UNCHANGED <<dmVars, sheetVars, memberRoles, grant, claimVars, now,
                 cfgSheet, uidSheet, sheetFormat, prompts, pager, nav>>

\* del d[key] when the key is there.
DictWithout(d, key) == [k \in DOMAIN d \ {key} |-> d[k]]

\* on_guild_remove(guild): the guild's configuration and history leave the
\* memory; the configuration is saved when an entry was removed.
GuildRemove(o, g) ==
  /\ OpFree(o)
  /\ guild_config' = DictWithout(guild_config, g)
  /\ granted_history' = DictWithout(granted_history, g)
  /\ op' = [op EXCEPT ![o] =
              [IdleOp EXCEPT !.kind = "guild_remove", !.guild = g,
                 !.pc = IF g \in DOMAIN guild_config THEN "csave_ws" ELSE "done"]]
  /\ UNCHANGED <<valid_uids, user_image_map, sheetVars, memberRoles, grant,
                 claimVars, now, cfgSheet, uidSheet, sheetFormat, prompts, pager, nav>>

\* interaction.guild.name
GuildName(g) == IF g = "g1" THEN "G1" ELSE "G2"

\* A role that is already set is kept.
WithBonusRole_KeepFirst(config, g, role) ==
  LET old == IF g \in DOMAIN config THEN config[g]
             ELSE Conf(NoneVal, NoneVal, NoneVal, NoneVal, NoneVal)
      new == [old EXCEPT !.bonus_role_id =
                           IF Truthy(old.bonus_role_id) THEN old.bonus_role_id
                           ELSE StrOf(role),
                         !.server_name = GuildName(g)]
  IN [k \in DOMAIN config \cup {g} |-> IF k = g THEN new ELSE config[k]]

\* conf = guild_config.get(g, {}); conf["bonus_role_id"] = str(role.id);
\* conf["server_name"] = guild.name; guild_config[g] = conf
WithBonusRole(config, g, role) ==
  LET old == IF g \in DOMAIN config THEN config[g]
             ELSE Conf(NoneVal, NoneVal, NoneVal, NoneVal, NoneVal)
      new == [old EXCEPT !.bonus_role_id = StrOf(role),
                         !.server_name = GuildName(g)]
  IN [k \in DOMAIN config \cup {g} |-> IF k = g THEN new ELSE config[k]]

\* /bonus_setting role: in guild g: the memory is updated and the save awaited.
BonusSettingCmd(o, g, role) ==
  /\ OpFree(o)
  /\ role \in GuildRoles(g)
  /\ guild_config' = WithBonusRole(guild_config, g, role)
  /\ op' = [op EXCEPT ![o] =
              [IdleOp EXCEPT !.pc = "csave_ws", !.kind = "bonus_setting",
                             !.guild = g, !.arg = StrOf(role)]]
  /\ UNCHANGED <<valid_uids, user_image_map, granted_history, sheetVars,
                 memberRoles, grant, claimVars, now,
                 cfgSheet, uidSheet, sheetFormat, prompts, pager, nav>>

\* The handler after save_guild_config_sheet returned (the save logs its
\* failures and never raises): on_guild_remove ends, /bonus_setting sends its
\* success response.
AfterConfigSave(rec) ==
  IF rec.kind = "guild_remove" THEN [rec EXCEPT !.pc = "done", !.rows = <<>>]
  ELSE IF rec.kind = "setup" THEN [rec EXCEPT !.pc = "send", !.rows = <<>>]
  ELSE [rec EXCEPT !.pc = "send", !.resp = "BonusRoleSet", !.rows = <<>>]

\* save_guild_config_sheet: the worksheet lookup returned the worksheet;
\* data_to_write is built from the memory of this moment.
CSaveWs(o) ==
  /\ op[o].pc = "csave_ws"
  /\ op' = [op EXCEPT ![o].pc = "csave_clear", ![o].rows = CfgPayload]
  /\ UNCHANGED <<dmVars, sheetVars, memberRoles, grant, claimVars, now,
                 cfgSheet, uidSheet, sheetFormat, prompts, pager, nav>>

\* The lookup returned None: the save logs and returns.
CSaveNoWs(o) ==
  /\ op[o].pc = "csave_ws"
  /\ op' = [op EXCEPT ![o] = AfterConfigSave(op[o])]
  /\ UNCHANGED <<dmVars, sheetVars, memberRoles, grant, claimVars, now,
                 cfgSheet, uidSheet, sheetFormat, prompts, pager, nav>>

\* _update in its worker thread: ws.clear()
CSaveClear(o) ==
  /\ op[o].pc = "csave_clear"
  /\ cfgSheet' = <<>>
  /\ op' = [op EXCEPT ![o].pc = "csave_update"]
  /\ UNCHANGED <<dmVars, sheetVars, memberRoles, grant, claimVars, now,
                 uidSheet, sheetFormat, prompts, pager, nav>>

\* _update in its worker thread: ws.update('A1', data_to_write, ...)
CSaveUpdate(o) ==
  /\ op[o].pc = "csave_update"
  /\ cfgSheet' = op[o].rows
  /\ op' = [op EXCEPT ![o] = AfterConfigSave(op[o])]
  /\ UNCHANGED <<dmVars, sheetVars, memberRoles, grant, claimVars, now,
                 uidSheet, sheetFormat, prompts, pager, nav>>

\* ws.clear() or ws.update() raised APIError: _update logs and returns.
CSaveApiError(o) ==
  /\ op[o].pc \in {"csave_clear", "csave_update"}
  /\ op' = [op EXCEPT ![o] = AfterConfigSave(op[o])]
  /\ UNCHANGED <<dmVars, sheetVars, memberRoles, grant, claimVars, now,
                 cfgSheet, uidSheet, sheetFormat, prompts, pager, nav>>

\* The steps of a handler that deferred, loads the history and answers.
HistoryCmdStep(o) ==
  \/ DeferOk(o)
  \/ DeferFail(o)
  \/ HLoadWs(o)
  \/ HLoadNoWs(o)
  \/ HLoadRead(o)
  \/ HLoadReadError(o)
  \/ HLoadAssign(o)
  \/ OpSendOk(o)
  \/ OpSendFail(o)

ConfigLoadStep(o) ==
  \/ CLoadWs(o)
  \/ CLoadNoWs(o)
  \/ CLoadRead(o)
  \/ CLoadReadError(o)
  \/ CLoadAssign(o)

ResetStep(o) ==
  \/ ResetWs(o)
  \/ ResetNoWs(o)
  \/ ResetRead(o)
  \/ ResetClear(o)
  \/ ResetUpdate(o)
  \/ ResetApiError(o)

ConfigSaveStep(o) ==
  \/ CSaveWs(o)
  \/ CSaveNoWs(o)
  \/ CSaveClear(o)
  \/ CSaveUpdate(o)
  \/ CSaveApiError(o)

OpStep(o) ==
  \/ HistoryCmdStep(o)
  \/ ConfigLoadStep(o)
  \/ ResetStep(o)
  \/ ConfigSaveStep(o)

(***************************************************************************)
(* Grants next to the operator commands that read and reset the history,   *)
(* and the bot's removal from a guild.  Both guilds were set up in this    *)
(* run of the bot, member 200 was granted the role in g2, and every save   *)
(* so far succeeded.                                                       *)
(***************************************************************************)
InitHistory ==
  /\ valid_uids = {"100", "200"}
  /\ user_image_map = [u \in {"100"} |-> "img://a"]
  /\ guild_config = [g \in Guilds |-> Conf(GuildName(g), "1", "10", "5", NoneVal)]
  /\ granted_history =
       [g \in {"g2"} |-> <<[uid |-> "200", username |-> UserName(200),
                            time |-> [fmt |-> "iso", t |-> 0]]>>]
  /\ sheetFormat \in SheetFormats
  /\ prompts = InitialPrompts
  /\ histSheet = StoredRows(HistPayload)
  /\ cfgSheet = CfgPayload
  /\ bonusSheet = <<>>
  /\ uidSheet = <<>>
  /\ memberRoles = [g \in Guilds |-> [m \in Members |->
                      IF g = "g2" /\ m = 200 THEN {10} ELSE {}]]
  /\ grant = [h \in Inv |-> IdleGrant]
  /\ NoClaims
  /\ op = [o \in Ops |-> IdleOp]
  /\ pager = [o \in Ops |-> NoPager]
  /\ nav = <<>>
  /\ now = 0

\* One grant in g1 next to the operator commands.
NextHistory ==
  \/ GrantPress(1, "g1", 100)
  \/ GrantStep(1)
  \/ \E o \in Ops, g \in Guilds, kind \in {"history", "extractinfo", "reset"} :
       DeferredCmd(o, kind, g)
  \/ \E o \in Ops, g \in Guilds : GuildRemove(o, g)
  \/ \E o \in Ops : OpStep(o)

SpecHistory == InitHistory /\ [][NextHistory]_vars

(***************************************************************************)
(* The history when every worksheet call succeeds: a grant in g1 next to   *)
(* /history, /extractinfo and /reset_history, in a worksheet whose cells   *)
(* are formatted as text.  No lookup returns None and no read, clear or    *)
(* update raises.                                                          *)
(***************************************************************************)
InitConverge ==
  /\ InitHistory
  /\ sheetFormat = "text"

NextConverge ==
  \/ GrantPress(1, "g1", 100)
  \/ AddRolesOk(1) \/ AddRolesFail(1) \/ SendOk(1) \/ SendFail(1)
  \/ BgAppend(1) \/ SaveGotWorksheet(1) \/ SaveClear(1) \/ SaveUpdate(1)
  \/ \E o \in Ops, g \in Guilds, kind \in {"history", "extractinfo", "reset"} :
       DeferredCmd(o, kind, g)
  \/ \E o \in Ops :
       \/ DeferOk(o) \/ DeferFail(o)
       \/ HLoadWs(o) \/ HLoadRead(o) \/ HLoadAssign(o)
       \/ CLoadWs(o) \/ CLoadRead(o) \/ CLoadAssign(o)
       \/ ResetWs(o) \/ ResetRead(o) \/ ResetClear(o) \/ ResetUpdate(o)
       \/ OpSendOk(o) \/ OpSendFail(o)

SpecConverge == InitConverge /\ [][NextConverge]_vars

(***************************************************************************)
(* HistoryPagerView: PrevPageButton and NextPageButton.  The operator      *)
(* presses the buttons as the message shows them: the message changes when *)
(* an edit_message arrives, not when the view object changes.              *)
(***************************************************************************)
Navs == 1..MaxNav

IdleNav ==
  [pc |-> "idle", view |-> 0, kind |-> "", resp |-> "",
   \* current_page when the callback started and when it reached its await.
   before |-> 0, after |-> 0,
   \* The buttons as the edit_message of this press carries them.
   prevDisabled |-> FALSE, nextDisabled |-> FALSE]

\* The guard of NextPageButton.callback is off by one.
NextTarget_OffByOne(v) ==
  IF v.current_page < v.total_pages THEN v.current_page + 1 ELSE v.current_page

\* NextPageButton.callback: the page after the press.
NextTarget(v) ==
  IF v.current_page < v.total_pages - 1 THEN v.current_page + 1
  ELSE v.current_page

\* PrevPageButton.callback: the page after the press.
PrevTarget(v) ==
  IF v.current_page > 0 THEN v.current_page - 1 ELSE v.current_page

\* The view reads the live history of g1 again when the page changes.
WithPage_Reslice(v, p) ==
  LET records == SortedNewestFirst(HistoryGet("g1"))
      total == IF records # <<>> THEN CeilDiv(Len(records), PerPage) ELSE 1
  IN [v EXCEPT !.records = records, !.total_pages = total,
               !.current_page = p, !.prevDisabled = (p = 0),
               !.nextDisabled = (p >= total - 1)]

\* HistoryPagerView.update_buttons on page p.
WithPage(v, p) ==
  [v EXCEPT !.current_page = p, !.prevDisabled = (p = 0),
            !.nextDisabled = (p >= v.total_pages - 1)]

\* The operator presses Prev or Next of the pager of invocation o, which has
\* not timed out (the library dispatches no interaction to a view that has).
\* A page change updates the view and awaits edit_message; at a boundary the
\* callback awaits interaction.response.defer.
NavPress(k, o, kind) ==
  /\ nav[k].pc = "idle"
  /\ \A j \in 1..(k - 1) : nav[j].pc # "idle"
  /\ pager[o].shown
  /\ ~pager[o].timedOut
  /\ kind \in {"prev", "next"}
  /\ IF kind = "prev" THEN ~pager[o].shownPrevDisabled
     ELSE ~pager[o].shownNextDisabled
  /\ LET v == pager[o]
         target == IF kind = "prev" THEN PrevTarget(v) ELSE NextTarget(v)
         moved == target # v.current_page
         w == IF moved THEN WithPage(v, target) ELSE v
     IN /\ pager' = [pager EXCEPT ![o] = w]
        /\ nav' = [nav EXCEPT ![k] =
             [IdleNav EXCEPT !.pc = IF moved THEN "edit" ELSE "ack",
                             !.resp = IF moved THEN "Edited" ELSE "Deferred",
                             !.view = o, !.kind = kind,
                             !.before = v.current_page, !.after = target,
                             !.prevDisabled = w.prevDisabled,
                             !.nextDisabled = w.nextDisabled]]
  /\ UNCHANGED <<dmVars, sheetVars, memberRoles, grant, claimVars, now,
                 cfgSheet, uidSheet, sheetFormat, prompts, op>>

\* edit_message returned: the message shows the buttons it carried.
NavEditOk(k) ==
  /\ nav[k].pc = "edit"
  /\ nav' = [nav EXCEPT ![k].pc = "done"]
  /\ pager' = [pager EXCEPT ![nav[k].view].shownPrevDisabled = nav[k].prevDisabled,
                            ![nav[k].view].shownNextDisabled = nav[k].nextDisabled]
  /\ UNCHANGED <<dmVars, sheetVars, memberRoles, grant, claimVars, now,
                 cfgSheet, uidSheet, sheetFormat, prompts, op>>

\* edit_message raised: the exception leaves the callback.
NavEditFail(k) ==
  /\ nav[k].pc = "edit"
  /\ nav' = [nav EXCEPT ![k].pc = "done"]
  /\ UNCHANGED <<dmVars, sheetVars, memberRoles, grant, claimVars, now,
                 cfgSheet, uidSheet, sheetFormat, prompts, op, pager>>

\* interaction.response.defer returned or raised: the callback ends.
NavAckReturn(k) ==
  /\ nav[k].pc = "ack"
  /\ nav' = [nav EXCEPT ![k].pc = "done"]
  /\ UNCHANGED <<dmVars, sheetVars, memberRoles, grant, claimVars, now,
                 cfgSheet, uidSheet, sheetFormat, prompts, op, pager>>

\* 180 s passed without an interaction: the library stops the view.
\* HistoryPagerView has no on_timeout, so the buttons stay as they are, in
\* the view and in the message.
PagerTimeout(o) ==
  /\ pager[o].shown
  /\ ~pager[o].timedOut
  /\ pager' = [pager EXCEPT ![o].timedOut = TRUE]
  /\ UNCHANGED <<dmVars, sheetVars, memberRoles, grant, claimVars, now,
                 cfgSheet, uidSheet, sheetFormat, prompts, op, nav>>

NavStep(k) ==
  \/ NavEditOk(k)
  \/ NavEditFail(k)
  \/ NavAckReturn(k)

\* The i-th of the records the worksheet held at start-up.
OldRecord(i) ==
  [uid |-> "100", username |-> UserName(100), time |-> [fmt |-> "utc", t |-> i]]

\* Guild g1 has 1 to MaxRecords records, loaded at start-up; an operator
\* runs /history there and pages through it.
InitPager ==
  /\ valid_uids = {"100"}
  /\ user_image_map = [u \in {"100"} |-> "img://a"]
  /\ guild_config = [g \in {"g1"} |-> Conf("G1", "1", "10", "5", NoneVal)]
  /\ \E n \in 1..MaxRecords :
       granted_history = [g \in {"g1"} |-> [i \in 1..n |-> OldRecord(i)]]
  /\ sheetFormat = "text"
  /\ prompts = InitialPrompts
  /\ histSheet = StoredRows(HistPayload)
  /\ cfgSheet = CfgPayload
  /\ bonusSheet = <<>>
  /\ uidSheet = <<>>
  /\ memberRoles = [g \in Guilds |-> [m \in Members |-> {}]]
  /\ grant = [h \in Inv |-> IdleGrant]
  /\ NoClaims
  /\ op = [o \in Ops |-> IdleOp]
  /\ pager = [o \in Ops |-> NoPager]
  /\ nav = [k \in Navs |-> IdleNav]
  /\ now = 0

NextPager ==
  \/ DeferredCmd(1, "history", "g1")
  \/ HistoryCmdStep(1)
  \/ \E k \in Navs, kind \in {"prev", "next"} : NavPress(k, 1, kind)
  \/ \E k \in Navs : NavStep(k)
  \/ PagerTimeout(1)

SpecPager == InitPager /\ [][NextPager]_vars

(***************************************************************************)
(* /reloadlist and load_uid_list_from_sheet.  A row of the UID_List        *)
(* worksheet is its UID cell and its IMGURL cell.                          *)
(***************************************************************************)
\* str.strip() on the cell texts that occur.
StripCell(c) ==
  CASE c = " " -> "" [] c = " 100 " -> "100" [] c = " 200 " -> "200"
    [] OTHER -> c

\* The reload adds to the roster it finds instead of building a new one.
ReloadedUids_Incremental(old, rows) ==
  old \cup ({StripCell(rows[i].uid) : i \in 1..Len(rows)} \ {""})

\* new_uids = set(); for row in rows: uid = str(row.get("UID", "")).strip();
\* if uid: new_uids.add(uid)
ReloadedUids(old, rows) ==
  {StripCell(rows[i].uid) : i \in 1..Len(rows)} \ {""}

\* The image url of a row is kept whether or not the row has a uid.
ReloadedImages_NoUidTest(rows) ==
  LET withImg == SelectSeq(rows, LAMBDA r : StripCell(r.img) # "")
  IN [u \in {StripCell(withImg[i].uid) : i \in 1..Len(withImg)} |->
        LET mine == SelectSeq(withImg, LAMBDA r : StripCell(r.uid) = u)
        IN StripCell(mine[Len(mine)].img)]

\* new_image_map: of the rows with a uid and an image url, the last url of
\* each uid.
ReloadedImages(rows) ==
  LET withImg == SelectSeq(rows, LAMBDA r :
                    StripCell(r.uid) # "" /\ StripCell(r.img) # "")
  IN [u \in {StripCell(withImg[i].uid) : i \in 1..Len(withImg)} |->
        LET mine == SelectSeq(withImg, LAMBDA r : StripCell(r.uid) = u)
        IN StripCell(mine[Len(mine)].img)]

\* load_uid_list_from_sheet: the worksheet lookup returned the worksheet.
ULoadWs(o) ==
  /\ op[o].pc = "uload_ws"
  /\ op' = [op EXCEPT ![o].pc = "uload_read"]
  /\ UNCHANGED <<dmVars, sheetVars, memberRoles, grant, claimVars, now,
                 cfgSheet, uidSheet, sheetFormat, prompts, pager, nav>>

\* The lookup returned None: the load returns, the roster is as it was, and
\* /reloadlist reports the counts of the roster in memory.
ULoadNoWs(o) ==
  /\ op[o].pc = "uload_ws"
  /\ op' = [op EXCEPT ![o].pc = "send", ![o].resp = "Reloaded"]
  /\ UNCHANGED <<dmVars, sheetVars, memberRoles, grant, claimVars, now,
                 cfgSheet, uidSheet, sheetFormat, prompts, pager, nav>>

\* _fetch_data in its worker thread: ws.get_all_records(head=1)
ULoadRead(o) ==
  /\ op[o].pc = "uload_read"
  /\ op' = [op EXCEPT ![o].pc = "uload_assign", ![o].rows = DataRows(uidSheet),
                      ![o].readOk = TRUE]
  /\ UNCHANGED <<dmVars, sheetVars, memberRoles, grant, claimVars, now,
                 cfgSheet, uidSheet, sheetFormat, prompts, pager, nav>>

\* get_all_records raised: _fetch_data logs and returns [].
ULoadReadError(o) ==
  /\ op[o].pc = "uload_read"
  /\ op' = [op EXCEPT ![o].pc = "uload_assign", ![o].rows = <<>>]
  /\ UNCHANGED <<dmVars, sheetVars, memberRoles, grant, claimVars, now,
                 cfgSheet, uidSheet, sheetFormat, prompts, pager, nav>>

\* The loop over the rows, self.valid_uids = new_uids,
\* self.user_image_map = new_image_map, and /reloadlist up to followup.send.
ULoadAssign(o) ==
  /\ op[o].pc = "uload_assign"
  /\ valid_uids' = ReloadedUids(valid_uids, op[o].rows)
  /\ user_image_map' = ReloadedImages(op[o].rows)
  /\ op' = [op EXCEPT ![o].pc = "send", ![o].resp = "Reloaded",
                      ![o].dropped = valid_uids \ valid_uids']
  /\ UNCHANGED <<guild_config, granted_history, sheetVars, memberRoles, grant,
                 claimVars, now, cfgSheet, uidSheet, sheetFormat, prompts, pager, nav>>

RosterLoadStep(o) ==
  \/ ULoadWs(o)
  \/ ULoadNoWs(o)
  \/ ULoadRead(o)
  \/ ULoadReadError(o)
  \/ ULoadAssign(o)

UidHeader == [kind |-> "header", cols |-> <<"Discord ID", "UID", "IMGURL">>]

\* The rows an operator keeps in the UID_List worksheet.
UidRows ==
  [kind : {"data"}, uid : {"", "100", " 200 "}, img : {"", "img://a"}]

\* The worksheets of at most two rows below the header.
UidTables ==
  {<<UidHeader>>} \cup {<<UidHeader, r>> : r \in UidRows}
    \cup {<<UidHeader, r1, r2>> : r1 \in UidRows, r2 \in UidRows}

\* An operator edits the UID_List worksheet in the spreadsheet.
EditUidSheet(t) ==
  /\ t \in UidTables
  /\ t # uidSheet
  /\ uidSheet' = t
  /\ UNCHANGED <<dmVars, sheetVars, memberRoles, grant, claimVars, now,
                 cfgSheet, sheetFormat, prompts, op, pager, nav>>

\* The roster and the images are as load_all_data read them from the
\* worksheet; the operator edits the worksheet and runs /reloadlist.
InitRoster ==
  /\ uidSheet \in UidTables
  /\ valid_uids = ReloadedUids({}, DataRows(uidSheet))
  /\ user_image_map = ReloadedImages(DataRows(uidSheet))
  /\ guild_config = [g \in {"g1"} |-> Conf("G1", "1", "10", "5", NoneVal)]
  /\ granted_history = EmptyDict
  /\ sheetFormat = "text"
  /\ prompts = InitialPrompts
  /\ histSheet = <<>>
  /\ cfgSheet = CfgPayload
  /\ bonusSheet = <<>>
  /\ memberRoles = [g \in Guilds |-> [m \in Members |-> {}]]
  /\ grant = [h \in Inv |-> IdleGrant]
  /\ NoClaims
  /\ op = [o \in Ops |-> IdleOp]
  /\ pager = [o \in Ops |-> NoPager]
  /\ nav = <<>>
  /\ now = 0

NextRoster ==
  \/ \E t \in UidTables : EditUidSheet(t)
  \/ DeferredCmd(1, "reloadlist", "g1")
  \/ DeferOk(1)
  \/ DeferFail(1)
  \/ RosterLoadStep(1)
  \/ OpSendOk(1)
  \/ OpSendFail(1)

SpecRoster == InitRoster /\ [][NextRoster]_vars

(***************************************************************************)
(* A pager next to what changes the live history.  Guild g1 has one record *)
(* more than a page holds; an operator runs /history and pages through it  *)
(* while a member is granted the role and a second operator command        *)
(* (/reset_history, /history or /extractinfo) runs.                        *)
(***************************************************************************)
InitSnapshot ==
  /\ valid_uids = {"100"}
  /\ user_image_map = [u \in {"100"} |-> "img://a"]
  /\ guild_config = [g \in {"g1"} |-> Conf("G1", "1", "10", "5", NoneVal)]
  /\ granted_history = [g \in {"g1"} |-> [i \in 1..(PerPage + 1) |-> OldRecord(i)]]
  /\ sheetFormat = "text"
  /\ prompts = InitialPrompts
  /\ histSheet = StoredRows(HistPayload)
  /\ cfgSheet = CfgPayload
  /\ bonusSheet = <<>>
  /\ uidSheet = <<>>
  /\ memberRoles = [g \in Guilds |-> [m \in Members |-> {}]]
  /\ grant = [h \in Inv |-> IdleGrant]
  /\ NoClaims
  /\ op = [o \in Ops |-> IdleOp]
  /\ pager = [o \in Ops |-> NoPager]
  /\ nav = [k \in Navs |-> IdleNav]
  /\ now = 0

NextSnapshot ==
  \/ DeferredCmd(1, "history", "g1")
  \/ \E kind \in {"reset", "history", "extractinfo"} : DeferredCmd(2, kind, "g1")
  \/ \E o \in {1, 2} : HistoryCmdStep(o)
  \/ \E o \in {1, 2} : ConfigLoadStep(o)
  \/ \E o \in {1, 2} : ResetStep(o)
  \/ GrantPress(1, "g1", 100)
  \/ GrantStep(1)
  \/ \E k \in {1, 2}, kind \in {"prev", "next"} : NavPress(k, 1, kind)
  \/ \E k \in {1, 2} : NavStep(k)

SpecSnapshot == InitSnapshot /\ [][NextSnapshot]_vars

(***************************************************************************)
(* /setup: the eligibility prompt is edited in place or posted, then the   *)
(* configuration is updated and saved.                                     *)
(***************************************************************************)
\* The message with this id exists in this channel.
MsgLive(id, ch) ==
  \E i \in prompts.live : MsgIds[i] = id /\ prompts.posted[i].channel = ch

\* The bot posted a message with this id in this channel.
MsgPosted(id, ch) ==
  \E i \in 1..Len(prompts.posted) :
    MsgIds[i] = id /\ prompts.posted[i].channel = ch

\* The id of the prompt the latest /setup of guild g posted or kept, when
\* it is in channel ch and still exists; "" otherwise.
PriorPrompt(g, ch) ==
  LET mine == {i \in 1..Len(prompts.posted) : prompts.posted[i].guild = g}
      last == CHOOSE i \in mine : \A j \in mine : j <= i
  IN IF mine # {} /\ last \in prompts.live /\ prompts.posted[last].channel = ch
     THEN MsgIds[last] ELSE ""

\* The old message /setup tries to update: old_config and
\* old_config.get("message_id") and old_config.get("channel_id") ==
\* str(channel.id), and the id is a digit string.  "" when there is none.
OldPromptToEdit(config, g, ch) ==
  IF /\ g \in DOMAIN config
     /\ Truthy(config[g].message_id)
     /\ config[g].channel_id = ch
     /\ IsDigit(config[g].message_id)
  THEN config[g].message_id ELSE ""

\* The update writes a fresh entry.
WithSetup_Fresh(config, g, ch, role, msg) ==
  [k \in DOMAIN config \cup {g} |->
     IF k = g THEN Conf(GuildName(g), ch, role, msg, NoneVal) ELSE config[k]]

\* current_config = guild_config.get(g, {}); current_config.update({...});
\* guild_config[g] = current_config
WithSetup(config, g, ch, role, msg) ==
  LET old == IF g \in DOMAIN config THEN config[g]
             ELSE Conf(NoneVal, NoneVal, NoneVal, NoneVal, NoneVal)
      new == [old EXCEPT !.server_name = GuildName(g), !.channel_id = ch,
                         !.role_id = role, !.message_id = msg]
  IN [k \in DOMAIN config \cup {g} |-> IF k = g THEN new ELSE config[k]]

\* /setup channel: role: in guild g.  When the bot lacks a permission the
\* handler answers and returns; otherwise it awaits defer.
SetupCmd(o, g, ch, role, permsOk) ==
  /\ OpFree(o)
  /\ ch \in Channels
  /\ role \in GuildRoles(g)
  /\ op' = [op EXCEPT ![o] =
              [IdleOp EXCEPT !.kind = "setup", !.guild = g, !.arg = ch,
                 !.role = StrOf(role),
                 !.prior = IF \A k \in Ops : op[k].pc \in {"idle", "done"}
                           THEN PriorPrompt(g, ch) ELSE "",
                 !.pc = IF permsOk THEN "setup_defer" ELSE "send",
                 !.resp = IF permsOk THEN "" ELSE "SetupRefused"]]
  /\ UNCHANGED <<dmVars, sheetVars, memberRoles, grant, claimVars, now,
                 cfgSheet, uidSheet, sheetFormat, prompts, pager, nav>>

\* defer raised: the exception leaves the handler.
SetupDeferFail(o) ==
  /\ op[o].pc = "setup_defer"
  /\ op' = [op EXCEPT ![o].pc = "done"]
  /\ UNCHANGED <<dmVars, sheetVars, memberRoles, grant, claimVars, now,
                 cfgSheet, uidSheet, sheetFormat, prompts, pager, nav>>

\* defer returned: the handler reads the old configuration and fetches the
\* old message, or goes on to post a new one.
SetupDeferOk(o) ==
  /\ op[o].pc = "setup_defer"
  /\ LET old == OldPromptToEdit(guild_config, op[o].guild, op[o].arg)
     IN op' = [op EXCEPT ![o].msg = old,
                         ![o].pc = IF old # "" THEN "setup_fetch"
                                   ELSE "setup_post"]
  /\ UNCHANGED <<dmVars, sheetVars, memberRoles, grant, claimVars, now,
                 cfgSheet, uidSheet, sheetFormat, prompts, pager, nav>>

\* channel.fetch_message returned the old message.
SetupFetchOk(o) ==
  /\ op[o].pc = "setup_fetch"
  /\ MsgLive(op[o].msg, op[o].arg)
  /\ op' = [op EXCEPT ![o].pc = "setup_edit"]
  /\ UNCHANGED <<dmVars, sheetVars, memberRoles, grant, claimVars, now,
                 cfgSheet, uidSheet, sheetFormat, prompts, pager, nav>>

\* fetch_message or edit raised discord.NotFound: a new message is posted.
SetupNotFound(o) ==
  /\ op[o].pc \in {"setup_fetch", "setup_edit"}
  /\ ~MsgLive(op[o].msg, op[o].arg)
  /\ op' = [op EXCEPT ![o].pc = "setup_post", ![o].editErr = "NotFound"]
  /\ UNCHANGED <<dmVars, sheetVars, memberRoles, grant, claimVars, now,
                 cfgSheet, uidSheet, sheetFormat, prompts, pager, nav>>

\* Every failure of the edit falls through to the post of a new message.
SetupEditRefused_PostsAnyway(o, err) ==
  /\ op[o].pc \in {"setup_fetch", "setup_edit"}
  /\ err \in {"Forbidden", "HTTPException"}
  /\ op' = [op EXCEPT ![o].pc = "setup_post", ![o].editErr = err]
  /\ UNCHANGED <<dmVars, sheetVars, memberRoles, grant, claimVars, now,
                 cfgSheet, uidSheet, sheetFormat, prompts, pager, nav>>

\* fetch_message or edit raised discord.Forbidden or another HTTPException:
\* the handler sends the failure and returns.
SetupEditRefused(o, err) ==
  /\ op[o].pc \in {"setup_fetch", "setup_edit"}
  /\ err \in {"Forbidden", "HTTPException"}
  /\ op' = [op EXCEPT ![o].pc = "send", ![o].resp = "SetupEdit" \o err,
                      ![o].editErr = err]
  /\ UNCHANGED <<dmVars, sheetVars, memberRoles, grant, claimVars, now,
                 cfgSheet, uidSheet, sheetFormat, prompts, pager, nav>>

\* old_msg.edit returned: the configuration is updated with the old id and
\* the save is awaited.
SetupEditOk(o) ==
  /\ op[o].pc = "setup_edit"
  /\ MsgLive(op[o].msg, op[o].arg)
  /\ guild_config' = WithSetup(guild_config, op[o].guild, op[o].arg,
                               op[o].role, op[o].msg)
  /\ op' = [op EXCEPT ![o].pc = "csave_ws", ![o].edited = op[o].msg,
                      ![o].resp = "SetupUpdated"]
  /\ UNCHANGED <<valid_uids, user_image_map, granted_history, sheetVars,
                 memberRoles, grant, claimVars, now,
                 cfgSheet, uidSheet, sheetFormat, prompts, pager, nav>>

\* channel.send returned the new message: the configuration is updated with
\* its id and the save is awaited.
SetupPostOk(o) ==
  /\ op[o].pc = "setup_post"
  /\ Len(prompts.posted) < Len(MsgIds)
  /\ LET i == Len(prompts.posted) + 1
     IN /\ prompts' = [posted |-> Append(prompts.posted,
                                    [channel |-> op[o].arg, guild |-> op[o].guild]),
                       live |-> prompts.live \cup {i}]
        /\ guild_config' = WithSetup(guild_config, op[o].guild, op[o].arg,
                                     op[o].role, MsgIds[i])
        /\ op' = [op EXCEPT ![o].pc = "csave_ws", ![o].posted = MsgIds[i],
                            ![o].resp = "SetupCreated"]
  /\ UNCHANGED <<valid_uids, user_image_map, granted_history, sheetVars,
                 memberRoles, grant, claimVars, now,
                 cfgSheet, uidSheet, sheetFormat, pager, nav>>

\* channel.send raised: the handler sends the failure and returns.
SetupPostFail(o) ==
  /\ op[o].pc = "setup_post"
  /\ op' = [op EXCEPT ![o].pc = "send", ![o].resp = "SetupPostFailed"]
  /\ UNCHANGED <<dmVars, sheetVars, memberRoles, grant, claimVars, now,
                 cfgSheet, uidSheet, sheetFormat, prompts, pager, nav>>

\* Somebody deletes a prompt in its channel.
DeletePrompt(i) ==
  /\ i \in prompts.live
  /\ prompts' = [prompts EXCEPT !.live = prompts.live \ {i}]
  /\ UNCHANGED <<dmVars, sheetVars, memberRoles, grant, claimVars, now,
                 cfgSheet, uidSheet, sheetFormat, op, pager, nav>>

SetupStep(o) ==
  \/ SetupDeferOk(o)
  \/ SetupDeferFail(o)
  \/ SetupFetchOk(o)
  \/ SetupNotFound(o)
  \/ \E err \in {"Forbidden", "HTTPException"} : SetupEditRefused(o, err)
  \/ SetupEditOk(o)
  \/ SetupPostOk(o)
  \/ SetupPostFail(o)

(***************************************************************************)
(* /setup next to /bonus_setting, the reload of /extractinfo, the bot's    *)
(* removal from the guild and the deletion of prompts.  Guild g1 has no    *)
(* entry yet, or was set up in this run of the bot and saved.              *)
(***************************************************************************)
InitSetup ==
  /\ valid_uids = {"100"}
  /\ user_image_map = [u \in {"100"} |-> "img://a"]
  /\ \/ /\ guild_config = [g \in {"g1"} |-> Conf("G1", "1", "10", "5", NoneVal)]
        /\ prompts = InitialPrompts
     \/ /\ guild_config = EmptyDict
        /\ prompts = [posted |-> <<>>, live |-> {}]
  /\ granted_history = EmptyDict
  /\ sheetFormat \in SheetFormats
  /\ histSheet = <<>>
  /\ cfgSheet = CfgPayload
  /\ bonusSheet = <<>>
  /\ uidSheet = <<>>
  /\ memberRoles = [g \in Guilds |-> [m \in Members |-> {}]]
  /\ grant = [h \in Inv |-> IdleGrant]
  /\ NoClaims
  /\ op = [o \in Ops |-> IdleOp]
  /\ pager = [o \in Ops |-> NoPager]
  /\ nav = <<>>
  /\ now = 0

\* The handler invocations of one behaviour: two, whatever the number of
\* invocation records.
SetupOps == Ops \cap {1, 2}

NextSetup ==
  \/ \E o \in SetupOps, ch \in Channels, permsOk \in BOOLEAN :
       SetupCmd(o, "g1", ch, 10, permsOk)
  \/ \E o \in SetupOps : SetupStep(o)
  \/ \E i \in 1..Len(MsgIds) : DeletePrompt(i)
  \/ \E o \in SetupOps : BonusSettingCmd(o, "g1", 20)
  \/ \E o \in SetupOps : DeferredCmd(o, "extractinfo", "g1")
  \/ \E o \in SetupOps : GuildRemove(o, "g1")
  \/ \E o \in SetupOps : HistoryCmdStep(o)
  \/ \E o \in SetupOps : ConfigLoadStep(o)
  \/ \E o \in SetupOps : ConfigSaveStep(o)

SpecSetup == InitSetup /\ [][NextSetup]_vars

(***************************************************************************)
(* The write paths together: /setup and /bonus_setting in g1, a grant in   *)
(* g1, the reload of /extractinfo and the deletion of a prompt.  Guild g1   *)
(* has no entry yet, or was set up in this run of the bot and saved.       *)
(***************************************************************************)
NextWrite ==
  \/ \E o \in SetupOps, ch \in Channels : SetupCmd(o, "g1", ch, 10, TRUE)
  \/ \E o \in SetupOps : SetupStep(o)
  \/ DeletePrompt(1)
  \/ \E o \in SetupOps : BonusSettingCmd(o, "g1", 20)
  \/ \E o \in SetupOps : DeferredCmd(o, "extractinfo", "g1")
  \/ \E o \in SetupOps : HistoryCmdStep(o)
  \/ \E o \in SetupOps : ConfigLoadStep(o)
  \/ \E o \in SetupOps : ConfigSaveStep(o)
  \/ GrantPress(1, "g1", 100)
  \/ GrantStep(1)

SpecWrite == InitSetup /\ [][NextWrite]_vars

(***************************************************************************)
(* Two configured guilds: /setup and /bonus_setting in g1, /extractinfo in  *)
(* either guild.  The worksheet is formatted as text and every clear and   *)
(* update of a save succeeds, while a lookup or a read may fail.           *)
(***************************************************************************)
NextTenants ==
  \/ \E o \in SetupOps, ch \in Channels : SetupCmd(o, "g1", ch, 10, TRUE)
  \/ \E o \in SetupOps : SetupStep(o)
  \/ DeletePrompt(1)
  \/ \E o \in SetupOps : BonusSettingCmd(o, "g1", 20)
  \/ \E o \in SetupOps, g \in Guilds : DeferredCmd(o, "extractinfo", g)
  \/ \E o \in SetupOps : HistoryCmdStep(o)
  \/ \E o \in SetupOps : ConfigLoadStep(o)
  \/ \E o \in SetupOps :
       CSaveWs(o) \/ CSaveNoWs(o) \/ CSaveClear(o) \/ CSaveUpdate(o)

SpecTenants == InitConverge /\ [][NextTenants]_vars

(***************************************************************************)
(* The guild configuration: /bonus_setting, the reload of /extractinfo and *)
(* the bot's removal from a guild.  Guild g1 was set up in this run of the *)
(* bot, with or without a /bonus_setting for role 20, and saved.  Member   *)
(* 100 holds role 20 and member 200 role 10.                               *)
(***************************************************************************)
InitConfig ==
  /\ valid_uids = {"100"}
  /\ user_image_map = [u \in {"100"} |-> "img://a"]
  /\ guild_config \in
       {[g \in {"g1"} |-> Conf("G1", "1", "10", "5", b)] : b \in {NoneVal, "20"}}
  /\ granted_history = EmptyDict
  /\ sheetFormat \in SheetFormats
  /\ prompts = InitialPrompts
  /\ histSheet = <<>>
  /\ cfgSheet = CfgPayload
  /\ bonusSheet = <<>>
  /\ uidSheet = <<>>
  /\ memberRoles = [g \in Guilds |-> [m \in Members |->
                      IF g = "g1" THEN (IF m = 100 THEN {20} ELSE {10}) ELSE {}]]
  /\ grant = [h \in Inv |-> IdleGrant]
  /\ NoClaims
  /\ op = [o \in Ops |-> IdleOp]
  /\ pager = [o \in Ops |-> NoPager]
  /\ nav = <<>>
  /\ now = 0

\* The operator commands that write or reload the configuration.
ConfigCommand ==
  \/ \E o \in Ops, role \in {10, 20} : BonusSettingCmd(o, "g1", role)
  \/ \E o \in Ops : DeferredCmd(o, "extractinfo", "g1")

NextConfig ==
  \/ ConfigCommand
  \/ \E o \in Ops : GuildRemove(o, "g1")
  \/ \E o \in Ops : HistoryCmdStep(o)
  \/ \E o \in Ops : ConfigLoadStep(o)
  \/ \E o \in Ops : ConfigSaveStep(o)

SpecConfig == InitConfig /\ [][NextConfig]_vars

(***************************************************************************)
(* Claims about the grant workflow.                                        *)
(***************************************************************************)
\* The records of member m in guild g's in-memory history.
RecordsOf(g, m) ==
  {i \in 1..Len(HistoryGet(g)) : HistoryGet(g)[i].uid = StrOf(m)}

SamePair(h1, h2) ==
  /\ grant[h1].guild = grant[h2].guild
  /\ grant[h1].user = grant[h2].user

\* h1 and h2 are the only invocations of their member in their guild; h1
\* applied the privilege and its background task had finished when h2 was
\* pressed; h2 has finished.
TwiceInSuccession(h1, h2) ==
  /\ h1 # h2
  /\ grant[h2].pc = "done"
  /\ h1 \in grant[h2].after
  /\ grant[h1].applied
  /\ grant[h1].appended
  /\ SamePair(h1, h2)
  /\ \A k \in Inv \ {h1, h2} : grant[k].pc = "idle" \/ ~SamePair(k, h1)

\* C1: when the grant workflow runs twice in succession for one member in one
\* guild and the first run applied the privilege and finished its history
\* task, the second run answers 'already granted', grants nothing, appends
\* nothing, and the guild's history holds exactly one record of the member.
C1_GrantIdempotent ==
  \A h1, h2 \in Inv :
    TwiceInSuccession(h1, h2) =>
      /\ grant[h2].resp = "AlreadyGranted"
      /\ ~grant[h2].applied
      /\ ~grant[h2].appended
      /\ ~grant[h2].saveStarted
      /\ Cardinality(RecordsOf(grant[h2].guild, grant[h2].user)) = 1

C1_Witness ==
  \E h1, h2 \in Inv :
    /\ TwiceInSuccession(h1, h2)
    /\ grant[h2].resp = "AlreadyGranted"
    /\ grant[h2].sent

\* h1 and h2 were in flight at the same time.
Concurrent(h1, h2) ==
  /\ h1 # h2
  /\ grant[h1].pc # "idle"
  /\ grant[h2].pc # "idle"
  /\ h1 \notin grant[h2].after
  /\ h2 \notin grant[h1].after

\* C2: of two concurrent grant-workflow invocations by the same member in
\* the same guild, at most one appends a GrantRecord to the guild's history.
C2_ConcurrentGrantsAppendOnce ==
  \A h1, h2 \in Inv :
    (Concurrent(h1, h2) /\ SamePair(h1, h2)) =>
      ~(grant[h1].appended /\ grant[h2].appended)

\* C8: an invocation whose add_roles call failed answers with the error
\* response and ends; it has not granted, appended a record or started a save.
C8_GrantFailureNoHistory ==
  \A h \in Inv :
    grant[h].failed =>
      /\ grant[h].resp = "GrantFailed"
      /\ grant[h].pc \in {"send", "done"}
      /\ ~grant[h].applied
      /\ ~grant[h].appended
      /\ ~grant[h].saveStarted

C8_Witness ==
  \E h \in Inv :
    /\ grant[h].failed
    /\ grant[h].pc = "done"
    /\ grant[h].sent
    /\ RecordsOf(grant[h].guild, grant[h].user) = {}

\* C9: an invocation by a member who is not in the roster answers
\* NotEligible and ends, whatever the guild's configuration is: no grant, no
\* record, no save.
C9_NotEligibleNoEffect ==
  \A h \in Inv :
    (grant[h].pc # "idle" /\ ~grant[h].eligible) =>
      /\ grant[h].resp = "NotEligible"
      /\ grant[h].pc \in {"send", "done"}
      /\ ~grant[h].applied
      /\ ~grant[h].appended
      /\ ~grant[h].saveStarted

C9_Witness ==
  \E h \in Inv :
    /\ ~grant[h].eligible
    /\ grant[h].hadConfig
    /\ grant[h].pc = "done"
    /\ grant[h].sent
    /\ grant[h].resp = "NotEligible"

\* C10: an invocation by a roster member in a guild that has no GuildConfig
\* entry answers GuildNotConfigured and ends: no grant, no record.
C10_GuildNotConfigured ==
  \A h \in Inv :
    (grant[h].pc # "idle" /\ grant[h].eligible /\ ~grant[h].hadConfig) =>
      /\ grant[h].resp = "GuildNotConfigured"
      /\ grant[h].pc \in {"send", "done"}
      /\ ~grant[h].applied
      /\ ~grant[h].appended
      /\ ~grant[h].saveStarted

C10_Witness ==
  \E h \in Inv :
    /\ grant[h].eligible
    /\ ~grant[h].hadConfig
    /\ grant[h].pc = "done"
    /\ grant[h].sent
    /\ grant[h].resp = "GuildNotConfigured"
    /\ HistoryGet(grant[h].guild) = <<>>

\* C11: an invocation by a roster member in a guild whose configuration
\* entry has an unset, malformed or dangling privilege reference answers
\* ConfigInvalid and ends: no grant, no record.
C11_ConfigInvalid ==
  \A h \in Inv :
    (/\ grant[h].pc # "idle"
     /\ grant[h].eligible
     /\ grant[h].roleRef \in {"unset", "malformed", "dangling"}) =>
      /\ grant[h].resp = "ConfigInvalid"
      /\ grant[h].pc \in {"send", "done"}
      /\ ~grant[h].applied
      /\ ~grant[h].appended
      /\ ~grant[h].saveStarted

\* The configured role was deleted from the guild.
C11_Witness ==
  \E h \in Inv :
    /\ grant[h].eligible
    /\ grant[h].roleRef = "dangling"
    /\ grant[h].pc = "done"
    /\ grant[h].sent
    /\ grant[h].resp = "ConfigInvalid"
    /\ memberRoles[grant[h].guild][grant[h].user] = {}

\* C12: an invocation that applied the privilege has appended exactly one
\* GrantRecord by the time it has finished, and an invocation appends a
\* record only after it applied the privilege.
C12_RecordPerAppliedGrant ==
  \A h \in Inv :
    /\ grant[h].appended => grant[h].applied
    /\ (grant[h].pc = "done" /\ grant[h].applied) => grant[h].appended

\* C14: an invocation whose durable save failed has ended with the success
\* response as its only message; its record is still in the in-memory
\* history and the member still holds the privilege.
C14_SaveFailureKeepsGrant ==
  \A h \in Inv :
    grant[h].saveFailed =>
      /\ grant[h].pc = "done"
      /\ grant[h].resp = "Granted"
      /\ grant[h].sent
      /\ grant[h].role \in memberRoles[grant[h].guild][grant[h].user]
      /\ Cardinality(RecordsOf(grant[h].guild, grant[h].user)) >=
           Cardinality({k \in Inv : /\ SamePair(k, h)
                                    /\ grant[k].appended})

\* A save failed with an API error after the worksheet was cleared.
C14_Witness ==
  \E h \in Inv :
    /\ grant[h].saveFailed
    /\ grant[h].appended
    /\ histSheet = <<>>
    /\ RecordsOf(grant[h].guild, grant[h].user) # {}

\* The invocation is between the start of its save's ws.clear() and the end
\* of its ws.update().
InClearWrite(h) == grant[h].pc \in {"save_clear", "save_update"}

\* C15: two saves of the grant-history table never have their clear and
\* write steps in flight together, and once every invocation has finished
\* with no store failure the table holds the payload of the whole memory.
C15_SavesSerialized ==
  /\ \A h1, h2 \in Inv : (h1 # h2 /\ InClearWrite(h1)) => ~InClearWrite(h2)
  /\ (/\ \A h \in Inv : grant[h].pc \in {"idle", "done"} /\ ~grant[h].saveFailed
      /\ \E h \in Inv : grant[h].appended)
       => histSheet = StoredRows(HistPayload)

\* The records of key g before a step are the first records of g after it.
RecordsKept(g) ==
  /\ g \in DOMAIN granted_history'
  /\ Len(granted_history'[g]) >= Len(granted_history[g])
  /\ SubSeq(granted_history'[g], 1, Len(granted_history[g])) = granted_history[g]

\* The step in which a /reset_history of guild g clears g's records.
ResetStepOf(g) ==
  \E o \in Ops :
    /\ op[o].kind = "reset"
    /\ op[o].guild = g
    /\ op[o].pc = "defer"
    /\ op'[o].pc = "reset_ws"

\* C13: a GrantRecord in a guild's in-memory history is never changed and
\* leaves it only in a step of reset_history for that guild.
C13_RecordsOnlyRemovedByReset ==
  [][\A g \in DOMAIN granted_history :
       granted_history[g] # <<>> => (RecordsKept(g) \/ ResetStepOf(g))]_vars

(***************************************************************************)
(* Claims about the claim workflow.                                        *)
(***************************************************************************)
\* The presses of control c.
PressesOf(c) == {p \in Presses : press[p].pc # "idle" /\ press[p].view = c}

\* C3: of the presses of one claim control that arrive before its deadline,
\* at most one succeeds (gets the success response and writes a ledger row);
\* every other press is rejected.
C3_ClaimExclusive ==
  \A c \in Cmds :
    Cardinality({p \in PressesOf(c) :
                   /\ ~press[p].late
                   /\ press[p].resp = "Claimed"
                   /\ press[p].logged}) <= 1

\* C4: no ledger append of a press is pending or completed while the button
\* of its control is not yet marked claimed (disabled, labelled 'Claimed').
C4_ClaimedBeforeAppend ==
  \A p \in Presses :
    (\/ press[p].pc \in {"log_worksheet", "log_header", "log_insert", "log_append"}
     \/ press[p].logged) =>
      /\ view[press[p].view].disabled
      /\ view[press[p].view].label = "Claimed"

\* C5: a press that arrives strictly after the deadline of its control is
\* rejected (no success response, no ledger row), and once the deadline has
\* passed with no claim, the control shown in the channel is disabled and
\* its prompt edited.
C5_ClaimExpiry ==
  /\ \A p \in Presses :
       press[p].late =>
         /\ press[p].pc \in {"idle", "done"}
         /\ press[p].resp # "Claimed"
         /\ ~press[p].logged
  /\ \A c \in Cmds :
       (/\ view[c].msg = "posted"
        /\ now > view[c].deadline
        /\ \A p \in PressesOf(c) : press[p].resp # "Claimed") =>
         /\ view[c].shownDisabled
         /\ view[c].edited

\* C6: a /bonus invocation builds and posts a claim control only if the
\* invoker is an administrator or holds an authorized privilege of the guild;
\* otherwise it answers Unauthorized and posts nothing.
C6_LaunchAuthorized ==
  \A c \in Cmds :
    cmd[c].pc # "idle" =>
      /\ view[c].created => cmd[c].allowed
      /\ ~cmd[c].allowed =>
           /\ cmd[c].resp = "Unauthorized"
           /\ cmd[c].pc \in {"final_send", "done"}
           /\ ~view[c].created
           /\ view[c].msg = "none"

\* A non-administrator is refused in a guild with no authorized privilege.
C6_Witness ==
  \E c \in Cmds :
    /\ cmd[c].pc = "done"
    /\ ~cmd[c].allowed
    /\ cmd[c].resp = "Unauthorized"
    /\ \A g \in Guilds : AuthorizedSet(g) = {}

\* C7: a /bonus invocation whose duration text is not digits followed by a
\* unit builds no claim control; past the authorization and permission
\* tests it answers InvalidDuration.
C7_InvalidDurationRejected ==
  \A c \in Cmds :
    (cmd[c].pc # "idle" /\ ~cmd[c].wellFormed) =>
      /\ ~view[c].created
      /\ cmd[c].resp \in {"Unauthorized", "BotLacksPermission", "InvalidDuration"}

(***************************************************************************)
(* Claims about the history pager.                                         *)
(***************************************************************************)
\* C16: current_page of a HistoryPagerView stays within 0..total_pages - 1;
\* Next on the last page and Prev on page 0 leave the page as it is and
\* acknowledge the interaction with a defer; every other press moves the
\* page by exactly one and edits the message.
C16_PaginationClamped ==
  /\ \A o \in Ops :
       pager[o].created =>
         /\ 0 <= pager[o].current_page
         /\ pager[o].current_page <= pager[o].total_pages - 1
  /\ \A k \in Navs :
       nav[k].pc # "idle" =>
         LET last == pager[nav[k].view].total_pages - 1
             atEdge == \/ nav[k].kind = "next" /\ nav[k].before = last
                       \/ nav[k].kind = "prev" /\ nav[k].before = 0
         IN IF atEdge
            THEN nav[k].after = nav[k].before /\ nav[k].resp = "Deferred"
            ELSE /\ nav[k].resp = "Edited"
                 /\ nav[k].after =
                      nav[k].before + (IF nav[k].kind = "next" THEN 1 ELSE -1)

\* Next was pressed on the last of several pages (the message still showed
\* the button enabled) and Prev on page 0.
C16_Witness ==
  /\ \E k \in Navs :
       /\ nav[k].pc = "done"
       /\ nav[k].kind = "next"
       /\ pager[nav[k].view].total_pages >= 2
       /\ nav[k].before = pager[nav[k].view].total_pages - 1
       /\ nav[k].resp = "Deferred"
  /\ \E k \in Navs :
       /\ nav[k].kind = "prev"
       /\ nav[k].before = 0
       /\ nav[k].resp = "Deferred"

(***************************************************************************)
(* Claims about the roster.                                                *)
(***************************************************************************)
\* The uid strings that can occur.
UidTexts == {"", " ", "100", "200", " 100 ", " 200 "}

\* C17: in the step that ends a roster reload whose read of the worksheet
\* succeeded, a uid is in the roster afterwards exactly if a row read has it
\* as its trimmed, non-empty UID cell; what was in the roster before and is
\* in no row is gone.
C17_RosterReload ==
  [][\A o \in Ops :
       (op[o].pc = "uload_assign" /\ op'[o].pc = "send" /\ op[o].readOk) =>
         /\ \A m \in UidTexts :
              m \in valid_uids' <=>
                (m # "" /\ \E i \in 1..Len(op[o].rows) :
                             StripCell(op[o].rows[i].uid) = m)
         /\ \A m \in valid_uids :
              (\A i \in 1..Len(op[o].rows) : StripCell(op[o].rows[i].uid) # m)
                => m \notin valid_uids']_vars

\* A reload has dropped uid 100 and taken up uid 200 from a padded cell.
C17_Witness ==
  \E o \in Ops :
    /\ op[o].pc = "send"
    /\ op[o].readOk
    /\ "100" \notin valid_uids
    /\ "200" \in valid_uids
    /\ \E i \in 1..Len(op[o].rows) : op[o].rows[i].uid = " 200 "
    /\ \A i \in 1..Len(op[o].rows) : op[o].rows[i].uid # "100"
    /\ op[o].dropped = {"100"}

(***************************************************************************)
(* Claims about the guild configuration.                                   *)
(***************************************************************************)
\* A non-administrator m may launch a claim in guild g (the bot may post and
\* the duration is '1s').
MayLaunch(g, m) == LaunchOutcome(g, m, FALSE, TRUE, <<"1", "s">>) = "Post"

\* C18: when a privilege X set with /bonus_setting was saved and the
\* configuration is then reloaded from the worksheet, X is the guild's
\* authorized privilege after the reload and a holder of X may launch.
C18_BonusRoleRoundTrip ==
  [][\A o \in Ops :
       (/\ op[o].pc = "cload_assign"
        /\ op'[o].pc # "cload_assign"
        /\ op[o].readOk) =>
         \A x \in op[o].auth :
           /\ AuthorizedSet(op[o].guild)' = {x}
           /\ \A m \in Members :
                x \in memberRoles[op[o].guild][m] => MayLaunch(op[o].guild, m)']_vars

\* Invocation o starts in this step as /bonus_setting of role r in guild g.
BonusSettingStarts(o, g, r) ==
  /\ op[o].pc = "idle"
  /\ op'[o].kind = "bonus_setting"
  /\ op'[o].guild = g
  /\ op'[o].arg = StrOf(r)

RemovesAuthorizedPrivilege(g) ==
  /\ ConfigCommand
  /\ HasConfig(g)'
  /\ AuthorizedSet(g)' = {}

\* C20: an authorized privilege can be removed: while a guild authorizes a
\* privilege and an invocation is free, some operator command removes it from
\* the guild's authorized set.
C20_PrivilegeRemovable ==
  \A g \in Guilds :
    (AuthorizedSet(g) # {} /\ \E o \in Ops : OpFree(o)) =>
      ENABLED RemovesAuthorizedPrivilege(g)

(***************************************************************************)
(* Claims about /setup and the guild configuration.                        *)
(***************************************************************************)
\* Invocation o is a /setup that ran on its own from its invocation until
\* now, in the channel of the guild's latest prompt, which still exists; the
\* bot was not removed from the guild in between.
SetupAgain(o) ==
  /\ op[o].kind = "setup"
  /\ \A k \in Ops : ~(op[k].kind = "guild_remove" /\ op[k].guild = op[o].guild)
  /\ op[o].prior # ""
  /\ MsgLive(op[o].prior, op[o].arg)
  /\ \A k \in Ops : k > o => op[k].pc = "idle"

\* The configuration entries of guild g: its key and what a reload makes of
\* the key the bot wrote into an automatic-format cell.
EntriesOf(g) == DOMAIN guild_config \cap {g, g \o "e+17"}

\* C21: a /setup run again in the channel of the guild's prompt, while the
\* prompt exists, posts no new message; when it reports success it edited
\* that prompt and the stored message reference is the prompt's, in the
\* guild's only configuration entry.
C21_SetupIdempotent ==
  \A o \in Ops :
    SetupAgain(o) =>
      /\ op[o].pc # "setup_post"
      /\ op[o].posted = ""
      /\ op[o].resp \notin {"SetupCreated", "SetupPostFailed"}
      /\ op[o].resp = "SetupUpdated" =>
           /\ op[o].edited = op[o].prior
           /\ EntriesOf(op[o].guild) = {op[o].guild}
           /\ guild_config[op[o].guild].message_id = op[o].prior
           /\ guild_config[op[o].guild].channel_id = op[o].arg

\* C22 (as stated): whatever failure the edit of the prior prompt met, /setup
\* goes on to post a new prompt and reports success unless the post fails.
C22_EditFailureFallsBack ==
  \A o \in Ops :
    op[o].editErr # "" =>
      \/ op[o].pc = "setup_post"
      \/ op[o].resp = "SetupPostFailed"
      \/ op[o].posted # "" /\ op[o].resp = "SetupCreated"

\* C22 (amended): when the prior prompt is not found, /setup posts a new
\* prompt, records its reference in the guild's configuration and reports
\* success, unless the post itself fails; when the edit is refused
\* (Forbidden) or meets another HTTP error, /setup posts nothing, leaves the
\* configuration as it is and reports the failure.
C22_EditNotFoundFallsBack ==
  [][\A o \in Ops :
       /\ (op[o].pc \in {"setup_fetch", "setup_edit"} /\ op'[o].editErr = "NotFound")
            => op'[o].pc = "setup_post"
       /\ (op[o].editErr = "NotFound" /\ op[o].pc = "setup_post"
             /\ op'[o].pc # "setup_post") =>
            \/ op'[o].resp = "SetupPostFailed" /\ UNCHANGED <<guild_config, prompts>>
            \/ /\ op'[o].posted # ""
               /\ \E i \in prompts'.live :
                    /\ MsgIds[i] = op'[o].posted
                    /\ prompts'.posted[i].channel = op[o].arg
               /\ guild_config'[op[o].guild].message_id = op'[o].posted
               /\ guild_config'[op[o].guild].channel_id = op[o].arg
               /\ op'[o].resp = "SetupCreated"
       /\ (op[o].editErr = "NotFound" /\ op[o].resp = "SetupCreated")
            => op'[o].resp = "SetupCreated"
       /\ (op[o].pc \in {"setup_fetch", "setup_edit"}
             /\ op'[o].editErr \in {"Forbidden", "HTTPException"}) =>
            /\ op'[o].pc = "send"
            /\ op'[o].resp = "SetupEdit" \o op'[o].editErr
            /\ UNCHANGED <<guild_config, prompts>>
       /\ op[o].editErr \in {"Forbidden", "HTTPException"} =>
            /\ op'[o].posted = ""
            /\ op'[o].pc \in {"send", "done"}
            /\ op'[o].resp = op[o].resp]_vars

\* The prior prompt was deleted, /setup posted a new one and ended with its
\* success response.
C22_Witness ==
  \E o \in Ops :
    /\ op[o].kind = "setup"
    /\ op[o].editErr = "NotFound"
    /\ op[o].posted # ""
    /\ op[o].resp = "SetupCreated"
    /\ op[o].pc = "done"
    /\ HasConfig(op[o].guild)
    /\ guild_config[op[o].guild].message_id = op[o].posted

\* C23: every configuration entry has its channel, role and message
\* references all unset or all set, and a set message reference is that of a
\* prompt the bot posted in the referenced channel.
C23_GuildConfigInvariant ==
  \A g \in DOMAIN guild_config :
    LET c == guild_config[g]
    IN \/ ~Truthy(c.channel_id) /\ ~Truthy(c.role_id) /\ ~Truthy(c.message_id)
       \/ /\ Truthy(c.channel_id) /\ Truthy(c.role_id) /\ Truthy(c.message_id)
          /\ MsgPosted(c.message_id, c.channel_id)

\* The references of guild g in a configuration; unset ones read as "".
RefsOf(config, g) ==
  IF g \in DOMAIN config
  THEN <<CellOf(config[g].channel_id), CellOf(config[g].role_id),
         CellOf(config[g].message_id)>>
  ELSE <<"", "", "">>

\* C24: no step of a /setup handler changes a guild's authorized privileges,
\* and /bonus_setting leaves the channel, role and message references of
\* every guild as they were: unset in the entry it creates for a guild that
\* was never set up.
C24_SetupAndBonusSettingFrames ==
  [][\A o \in Ops :
       /\ (op'[o].kind = "setup" /\ op'[o] # op[o]) =>
            \A g \in Guilds :
              /\ AuthorizedSet(g)' = AuthorizedSet(g)
              /\ (HasConfig(g) /\ HasConfig(g)') =>
                   guild_config'[g].bonus_role_id = guild_config[g].bonus_role_id
       /\ \A g \in Guilds, r \in {10, 20} :
            BonusSettingStarts(o, g, r) =>
              /\ HasConfig(g)'
              /\ \A k \in Guilds : RefsOf(guild_config', k) = RefsOf(guild_config, k)]_vars

\* /bonus_setting 20 made the entry of a guild that was never set up, then
\* /setup posted the prompt: the references are set and role 20 is still
\* the authorized privilege.
C24_Witness ==
  /\ op[1].kind = "bonus_setting" /\ op[1].guild = "g1"
  /\ op[2].kind = "setup" /\ op[2].guild = "g1" /\ op[2].resp = "SetupCreated"
  /\ prompts.posted # <<>>
  /\ MsgIds[1] = op[2].posted
  /\ RefsOf(guild_config, "g1") = <<op[2].arg, "10", op[2].posted>>
  /\ AuthorizedSet("g1") = {20}

(***************************************************************************)
(* Claims about the asset map.                                             *)
(***************************************************************************)
\* C25: in every state, also between the steps of a roster reload, every
\* key of user_image_map is a member of valid_uids.
C25_AssetKeysInRoster == DOMAIN user_image_map \subseteq valid_uids

\* A reload read the worksheet and replaced the roster and the images: some
\* member has an image and some eligible member has none.
C25_Witness ==
  /\ op[1].kind = "reloadlist"
  /\ op[1].readOk
  /\ op[1].pc \in {"send", "done"}
  /\ valid_uids = {"100", "200"}
  /\ DOMAIN user_image_map = {"200"}

(***************************************************************************)
(* Claims about the pager's snapshot.                                      *)
(***************************************************************************)
\* C26: no step changes the records, their order or total_pages of a view
\* that exists, and a step of a navigation press leaves the live history as
\* it is.
C26_PagerSnapshot ==
  [][/\ \A o \in Ops :
          pager[o].created =>
            /\ pager'[o].created
            /\ pager'[o].records = pager[o].records
            /\ pager'[o].total_pages = pager[o].total_pages
     /\ nav' # nav => granted_history' = granted_history]_vars

\* The live history of g1 changed after the view was made, and a press
\* changed the page of the view afterwards.
C26_Witness ==
  /\ pager[1].created
  /\ pager[1].records # SortedNewestFirst(HistoryGet("g1"))
  /\ pager[1].records = SortedNewestFirst([i \in 1..(PerPage + 1) |-> OldRecord(i)])
  /\ \E k \in Navs :
       /\ nav[k].pc = "done"
       /\ nav[k].resp = "Edited"
       /\ nav[k].view = 1
       /\ pager[1].current_page = nav[k].after

\* C27: once a view has timed out, its Prev and Next buttons are disabled,
\* in the view and in the message that shows it, and no step changes its
\* current_page.
C27_PagerTimeoutDisables ==
  [][\A o \in Ops :
       pager[o].timedOut =>
         /\ pager[o].prevDisabled /\ pager[o].nextDisabled
         /\ pager[o].shownPrevDisabled /\ pager[o].shownNextDisabled
         /\ pager'[o].current_page = pager[o].current_page]_vars

\* The view built from the first n records of a snapshot has
\* max(1, ceil(n / 10)) pages, and its page p shows the records with the
\* 0-based indices 10p to min(n, 10p + 10) - 1, in snapshot order.
PagesAsSpecified(records, n) ==
  LET snapshot == SubSeq(records, 1, n)
      v == NewPager(snapshot)
      \* max(1, ceil(n / 10)): the least k >= 1 with 10k >= n.
      pages == CHOOSE k \in 1..(n + 1) :
                 10 * k >= n /\ (k = 1 \/ 10 * (k - 1) < n)
  IN /\ v.total_pages = pages
     /\ \A p \in 0..(pages - 1) :
          LET last == IF n < 10 * p + 10 THEN n ELSE 10 * p + 10
          IN PageSlice(v.records, p) =
               [i \in 1..(last - 10 * p) |-> snapshot[10 * p + i]]

\* C28: for every snapshot of n >= 0 records, total_pages is
\* max(1, ceil(n / 10)) and page p shows exactly the records 10p to
\* min(n, 10p + 10) - 1: checked for every prefix of the records a view
\* holds, and for the view itself.
C28_PagesOfSnapshot ==
  \A o \in Ops :
    pager[o].created =>
      /\ \A n \in 0..Len(pager[o].records) : PagesAsSpecified(pager[o].records, n)
      /\ pager[o].total_pages = NewPager(pager[o].records).total_pages

\* A view of 21 records is on its third page, which shows one record.
C28_Witness ==
  /\ pager[1].shown
  /\ Len(pager[1].records) = 2 * PerPage + 1
  /\ pager[1].current_page = 2
  /\ Len(PageSlice(pager[1].records, pager[1].current_page)) = 1

(***************************************************************************)
(* Claims about the duration argument.                                     *)
(***************************************************************************)
\* The number a digit group stands for and the seconds of a unit letter.
NumberOf(digits) ==
  CASE digits = <<"0">> -> 0 [] digits = <<"1">> -> 1
    [] digits = <<"1", "0">> -> 10 [] digits = <<"0", "2">> -> 2

SecondsOf(unit) ==
  CASE unit \in {"s", "S"} -> 1 [] unit \in {"m", "M"} -> 60
    [] unit \in {"h", "H"} -> 3600 [] unit \in {"d", "D"} -> 86400

\* C29: for a text made of a non-negative integer n and a unit in
\* {s, m, h, d}, with optional whitespace between and around them and in
\* any letter case, parse_duration_to_seconds returns n times 1, 60, 3600 or
\* 86400, and that is the timeout of the view /bonus builds.
C29_DurationParsed ==
  \A c \in Cmds, parts \in DurationParts :
    (cmd[c].pc # "idle" /\ cmd[c].text = TextOf(parts)) =>
      LET r == parse_duration_to_seconds(cmd[c].text)
          expected == NumberOf(parts.digits) * SecondsOf(parts.unit)
      IN /\ ~r.raised
         /\ r.value = expected
         /\ view[c].created => view[c].timeout = expected
         /\ view[c].created <=> expected > 0

\* /bonus with '10m' built a view with a timeout of 600 seconds.
C29_Witness ==
  \E c \in Cmds :
    /\ cmd[c].text = <<"1", "0", "m">>
    /\ view[c].created
    /\ view[c].timeout = 600
    /\ cmd[c].seconds = 600

(***************************************************************************)
(* Claims about the removal of the claim prompt.                           *)
(***************************************************************************)
\* auto_delete_message of command c exists: it sleeps, or its delete was
\* attempted (the command ended after the confirmation was sent).
AutoDeleteCreated(c) ==
  \/ cmd[c].pc = "sleep"
  \/ cmd[c].pc = "done" /\ cmd[c].resp = "Posted"

\* C30: every prompt that was posted is deleted after its deadline on every
\* path after the post, the failure of the confirmation included, when the
\* delete itself succeeds.  In a finite form: while a posted prompt is in the
\* channel, either the confirmation is still being sent or the task that
\* deletes the prompt has been created.
C30_PostedPromptGetsDeleted ==
  \A c \in Cmds :
    view[c].msg = "posted" =>
      cmd[c].pc = "response_send" \/ AutoDeleteCreated(c)

(***************************************************************************)
(* Claims about worksheet failures and the partition by guild.             *)
(***************************************************************************)
\* The answers that tell the operator the command did its work.
SuccessResponses ==
  {"Reloaded", "Pager", "NoHistory", "Report", "BonusRoleSet",
   "SetupCreated", "SetupUpdated"}

\* _get_or_create_worksheet returned None to the loader or the save that
\* handler o awaits: the worksheet was not found and add_worksheet raised,
\* or the lookup itself raised.
WorksheetUnavailable(o) ==
  \/ ULoadNoWs(o)
  \/ HLoadNoWs(o)
  \/ CSaveNoWs(o) /\ op[o].kind \in {"setup", "bonus_setting"}

\* C31: when the access to a worksheet fails and the attempt to create it
\* fails too, the operator command that needed the worksheet answers with a
\* failure, never with a success.
C31_TableFailureReported ==
  [][\A o \in Ops :
       WorksheetUnavailable(o) => op'[o].resp \notin SuccessResponses]_vars

\* The data rows of a worksheet that are not labelled with guild g.
RowsOfOthers(rows, g) ==
  SelectSeq(DataRows(rows), LAMBDA r : r.guild_id # g)

\* The rows of the other guilds as the reset of handler o last saw them in
\* the worksheet: in the worksheet itself before get_all_values, in
\* rows_to_keep after it.
OthersSeenByReset(o) ==
  IF op[o].pc = "reset_read" THEN RowsOfOthers(histSheet, op[o].guild)
  ELSE DataRows(op[o].rows)

\* Handler o is a /reset_history whose work on the worksheet ends with this
\* step.
ResetLeavesSheet(o) ==
  /\ op[o].kind = "reset"
  /\ op[o].pc \in {"reset_read", "reset_clear", "reset_update"}
  /\ op'[o].pc = "send"

\* The records of every guild but g are the same in memory before and after
\* the step.
MemoryOfOthersKept(g) ==
  \A x \in DOMAIN granted_history \cup DOMAIN granted_history' :
    x # g => /\ x \in DOMAIN granted_history
             /\ x \in DOMAIN granted_history'
             /\ granted_history'[x] = granted_history[x]

\* C32: the history is partitioned by guild.  A /reset_history in guild g
\* leaves the records of every other guild as they were, in memory and in
\* the granted_history worksheet, and a grant in g appends to g's records
\* only.
C32_HistoryPartitioned ==
  [][/\ \A o \in Ops :
          /\ (op[o].kind = "reset" /\ op'[o] # op[o]) =>
               MemoryOfOthersKept(op[o].guild)
          /\ ResetLeavesSheet(o) =>
               RowsOfOthers(histSheet', op[o].guild) = OthersSeenByReset(o)
     /\ \A h \in Inv :
          BgAppend(h) =>
            /\ MemoryOfOthersKept(grant[h].guild)
            /\ HistoryGet(grant[h].guild)' # HistoryGet(grant[h].guild)]_vars

(***************************************************************************)
(* Claims about the memory and the worksheets.                             *)
(***************************************************************************)
\* No handler and no background save is running.
Quiescent ==
  /\ \A h \in Inv : grant[h].pc \in {"idle", "done"}
  /\ \A o \in Ops : op[o].pc \in {"idle", "done"}

\* The members of a guild's records, in order.
UidsOf(records) == [i \in 1..Len(records) |-> records[i].uid]

\* C33: when every worksheet call succeeded and every handler and every
\* background save has finished, the granted_history worksheet holds for
\* every guild the records of the in-memory history, same members in the
\* same order, whatever the interleaving of grants, reloads and resets was.
C33_CacheAndStoreConverge ==
  Quiescent =>
    \A g \in Guilds :
      UidsOf(LoadedHistoryOf(histSheet, g)) = UidsOf(HistoryGet(g))

\* Handler o calls save_guild_config_sheet with this step.
ConfigSaveIssued(o) ==
  /\ op[o].pc # "csave_ws"
  /\ op'[o].pc = "csave_ws"
  /\ op'[o].kind \in {"setup", "bonus_setting"}

\* The configuration in memory after the step holds what handler o set.
ConfigHoldsNewValue(o) ==
  /\ op'[o].guild \in DOMAIN guild_config'
  /\ LET conf == guild_config'[op'[o].guild]
     IN IF op'[o].kind = "bonus_setting"
        THEN conf.bonus_role_id = op'[o].arg
        ELSE /\ conf.channel_id = op'[o].arg
             /\ conf.role_id = op'[o].role
             /\ conf.message_id \in {op'[o].posted, op'[o].edited}
             /\ conf.message_id # ""

\* The history in memory after the step ends with the record of grant h.
HistoryHoldsNewRecord(h) ==
  /\ grant[h].guild \in DOMAIN granted_history'
  /\ LET records == granted_history'[grant[h].guild]
     IN /\ records # <<>>
        /\ records[Len(records)].uid = StrOf(grant[h].user)

\* C34: memory first.  When /setup, /bonus_setting or a grant issues its
\* write to the worksheet, the collection in memory already holds the new
\* value, and no step of that write, completed or failed, changes the
\* collection: a handler that reads the memory after the mutation sees it
\* whatever became of the write.
C34_MemoryFirst ==
  [][/\ \A o \in Ops :
          /\ ConfigSaveIssued(o) => ConfigHoldsNewValue(o)
          /\ (op[o].pc \in {"csave_ws", "csave_clear", "csave_update"}
                /\ op[o].kind \in {"setup", "bonus_setting"}
                /\ op'[o] # op[o]) => guild_config' = guild_config
     /\ \A h \in Inv :
          /\ (grant[h].pc # "save_ws" /\ grant'[h].pc = "save_ws") =>
               HistoryHoldsNewRecord(h)
          /\ (grant[h].pc \in {"save_ws", "save_clear", "save_update"}
                /\ grant'[h] # grant[h]) =>
               granted_history' = granted_history]_vars

\* The save of a grant failed and its record is in memory, while a
\* /bonus_setting has cleared the worksheet, has not written it yet, and
\* its role is in memory.
C34_Witness ==
  /\ grant[1].saveFailed
  /\ HistoryGet("g1") # <<>>
  /\ \E o \in Ops :
       /\ op[o].kind = "bonus_setting"
       /\ op[o].pc = "csave_update"
       /\ cfgSheet = <<>>
       /\ "g1" \in DOMAIN guild_config
       /\ guild_config["g1"].bonus_role_id = op[o].arg

\* C35: when the worksheet read of a reload raises, the collection in
\* memory keeps the contents it had before the reload: the configuration
\* for load_guild_config_sheet, the roster and the images for
\* load_uid_list_from_sheet.
C35_FailedReadKeepsMemory ==
  [][\A o \in Ops :
       /\ (CLoadAssign(o) /\ ~op[o].readOk) => guild_config' = guild_config
       /\ (ULoadAssign(o) /\ ~op[o].readOk) =>
            /\ valid_uids' = valid_uids
            /\ user_image_map' = user_image_map]_vars

\* The rows of the guild_config worksheet labelled with guild g.
CfgRowsOf(rows, g) ==
  SelectSeq(DataRows(rows), LAMBDA r : r.guild_id = g)

\* C36: /setup and /bonus_setting in g1 leave the guild_config row of g2 as
\* it was, from every state of the memory, a state after a reload whose
\* read failed included.  Only handlers of g1 write the worksheet here, so
\* unless one of them is between its clear and its update the worksheet
\* holds the row g2 started with.
C36_OtherGuildRowKept ==
  (\A o \in Ops : op[o].pc # "csave_update") =>
    CfgRowsOf(cfgSheet, "g2") =
      <<CfgStoredRow("g2", Conf(GuildName("g2"), "1", "10", "5", NoneVal))>>

\* A /reset_history of guild g has ended with its success answer.
ResetSucceeded(g) ==
  \E o \in Ops :
    /\ op[o].kind = "reset"
    /\ op[o].guild = g
    /\ op[o].pc = "done"
    /\ op[o].resp = "ResetDone"

\* The members with a record of guild g in a list of records.
MembersOf(records) == {records[i].uid : i \in 1..Len(records)}

\* C37: member 200 was granted the role in g2 before anything else ran.
\* Once a /reset_history of g2 has reported success and every handler and
\* background save has finished, that record is neither in the in-memory
\* history nor in the granted_history worksheet (from where a later reload
\* would bring it back), whatever grant saves ran next to the reset.
C37_ResetRecordsStayGone ==
  (Quiescent /\ ResetSucceeded("g2")) =>
    /\ "200" \notin MembersOf(HistoryGet("g2"))
    /\ "200" \notin MembersOf(LoadedHistoryOf(histSheet, "g2"))

(***************************************************************************)
(* Claims about the Bonus_Log worksheet.                                   *)
(***************************************************************************)
\* No append_bonus_log_to_sheet is inside its worker thread.
NoAppendRunning ==
  \A p \in Presses : press[p].pc \notin {"log_header", "log_insert", "log_append"}

\* The positions of the header rows, and of the data rows, in the ledger.
HeaderRowsOf(rows) == {i \in 1..Len(rows) : rows[i].kind = "header"}

LedgerRowsOf(rows) == {i \in 1..Len(rows) : rows[i].kind = "data"}

\* C38: after any interleaving of concurrent appends to an empty Bonus_Log
\* worksheet, the worksheet has one header row, which is its first row, and
\* one data row for every append that wrote its row.
C38_LedgerWellFormed ==
  (NoAppendRunning /\ bonusSheet # <<>>) =>
    /\ HeaderRowsOf(bonusSheet) = {1}
    /\ Cardinality(LedgerRowsOf(bonusSheet)) =
         Cardinality({p \in Presses : press[p].logged})

=============================================================================
